---- MODULE Spec2Model ----
(***************************************************************************)
(* Job-execution subsystem of the neuroimaging orchestration server:       *)
(* the job row (backend/models/job.py), the three execution backends       *)
(* (backend/execution/*_backend.py), the queued executors                  *)
(* (backend/execution/celery_tasks.py) and the HTTP job handlers           *)
(* (backend/main.py), for one job.                                         *)
(*                                                                         *)
(* Environment assumptions of the model:                                   *)
(*  - the relational store is available: a commit succeeds and is atomic;  *)
(*  - wall-clock time never goes backwards (clock);                        *)
(*  - a task message is redelivered only after its worker was lost         *)
(*    (acks_late + reject_on_worker_lost), at most MaxRedeliver times;     *)
(*  - a revoke broadcast may or may not reach a worker.                    *)
(***************************************************************************)
EXTENDS Integers, Sequences, FiniteSets, TLC

\* ---------------------------------------------------------------- bounds
MaxClock == 2
MaxRedeliver == 1
MaxCancels == 2
MaxLog == 2
MaxSteps == 2
\* the number of steps of the long workflow
LongWorkflow == 46

\* ------------------------------------------------------ program constants
\* max_retries = self.max_retries or 2 (the except handler of run_docker_job)
max_retries == 2

\* optional values: NULL columns and unset locals
None == << >>
Some(x) == << x >>

Terminal == {"completed", "failed", "cancelled"}

\* ------------------------------------------------------------------------
\* celery_tasks.py: image allow-list
\* ------------------------------------------------------------------------
ALLOWED_IMAGE_PREFIXES ==
  << <<"f", "r", "e", "e", "s", "u", "r", "f", "e", "r", "/", "f", "r", "e", "e", "s", "u", "r", "f", "e", "r">>,
     <<"d", "e", "e", "p", "m", "i", "/", "f", "a", "s", "t", "s", "u", "r", "f", "e", "r">>,
     <<"n", "i", "p", "r", "e", "p", "s", "/", "f", "m", "r", "i", "p", "r", "e", "p">>,
     <<"p", "e", "n", "n", "l", "i", "n", "c", "/", "x", "c", "p", "_", "d">>,
     <<"p", "e", "n", "n", "b", "b", "l", "/", "q", "s", "i", "p", "r", "e", "p">>,
     <<"p", "e", "n", "n", "b", "b", "l", "/", "q", "s", "i", "r", "e", "c", "o", "n">>,
     <<"p", "e", "n", "n", "l", "i", "n", "c", "/", "q", "s", "i", "r", "e", "c", "o", "n">>,
     <<"n", "i", "p", "y", "/", "h", "e", "u", "d", "i", "c", "o", "n", "v">>,
     <<"m", "e", "l", "d", "p", "r", "o", "j", "e", "c", "t", "/", "m", "e", "l", "d", "_", "g", "r", "a", "p", "h">>,
     <<"n", "i", "p", "r", "e", "p", "s", "/", "m", "r", "i", "q", "c">>,
     <<"b", "i", "d", "s", "/">> >>

\* str.split(ch)[0]: the part of s before the first ch (all of s without ch)
SplitFirst(s, ch) ==
  LET hits == {i \in 1..Len(s) : s[i] = ch}
  IN  IF hits = {} THEN s
      ELSE SubSeq(s, 1, (CHOOSE i \in hits : \A j \in hits : i <= j) - 1)

\* str.startswith(prefix)
StartsWith(s, prefix) ==
  /\ Len(prefix) <= Len(s)
  /\ SubSeq(s, 1, Len(prefix)) = prefix

\* image.split(":")[0].split("@")[0]
ImageBase(image) == SplitFirst(SplitFirst(image, ":"), "@")

_validate_image(image) ==
  \E k \in 1..Len(ALLOWED_IMAGE_PREFIXES) :
     StartsWith(ImageBase(image), ALLOWED_IMAGE_PREFIXES[k])

\* images a submission may name (as character sequences)
ImgFreesurfer == <<"f", "r", "e", "e", "s", "u", "r", "f", "e", "r", "/", "f", "r", "e", "e", "s", "u", "r", "f", "e", "r", ":", "7">>
ImgBidsDigest == <<"b", "i", "d", "s", "/", "v", "@", "d">>
ImgEvil == <<"e", "v", "i", "l", ".", "i", "o", "/", "m", "i", "n", "e", "r", ":", "1">>
ImgNone == << >>
Images == {ImgFreesurfer, ImgEvil, ImgNone}

\* ------------------------------------------------------------------------
\* phase_milestones.py: GENERIC milestone list, (marker, percentage)
\* ------------------------------------------------------------------------
GENERIC ==
  << <<"Starting", 5>>, <<"Processing", 25>>, <<"Running", 50>>,
     <<"Writing", 75>>, <<"completed", 100>> >>

get_milestones == GENERIC

Markers == {GENERIC[i][1] : i \in 1..Len(GENERIC)}

\* ------------------------------------------------------------------------
\* plugin_registry.py: the plugins a workflow step may name; "ghost" is an
\* id the registry does not hold
\* ------------------------------------------------------------------------
PluginIds == {"fs", "evil", "ghost"}

get_plugin(id) ==
  CASE id = "fs" -> Some([container_image |-> ImgFreesurfer])
    [] id = "evil" -> Some([container_image |-> ImgEvil])
    [] OTHER -> None

\* container exit codes the runtime may report
ExitCodes == {0, 137}

VARIABLES
  backend_type,   \* BACKEND_TYPE of the singleton backend
  spec_dict,      \* the submission (JobSpec / spec_dict)
  row,            \* the job row of the Job Store
  jobs,           \* the backend's in-memory tracking entry, _jobs[job_id]
  task,           \* the task message on the durable queue
  ex,             \* the executor running the job: position and locals
  containers,     \* every container started for the job, in order
  clock,          \* wall-clock time
  http,           \* the HTTP cancel handler: position and loaded snapshot
  hist,           \* history: what has happened so far
  conversions,    \* the mri_convert containers run by bundle extraction
  build,          \* the command builder: its inputs and the command built
  registry,       \* the plugin/workflow registry, the YAML files and a reader
  ssh,            \* the SSHManager singleton, its idle timer thread and the time
  call            \* a call of a method that changes nothing: arguments and result

vars == << backend_type, spec_dict, row, jobs, task, ex, containers, clock, http, hist,
           conversions, build, registry, ssh, call >>

\* the job-execution state, left alone by the other components
job_vars == << backend_type, spec_dict, row, jobs, task, ex, containers, clock, http, hist,
               conversions >>

\* the state of the other components, left alone by the job execution
service_vars == << build, registry, ssh, call >>

\* ------------------------------------------------------------------------
\* models/job.py: the job row
\* ------------------------------------------------------------------------
NoRow ==
  [ exists |-> FALSE, status |-> "pending", progress |-> 0,
    started_at |-> None, completed_at |-> None, exit_code |-> None,
    backend_job_id |-> None, deleted |-> FALSE ]

\* Job.from_spec: a new row, status pending, progress 0
from_spec == [NoRow EXCEPT !.exists = TRUE]

is_terminal(r) == r.status \in Terminal

\* Job.mark_cancelled
mark_cancelled(r) == [r EXCEPT !.status = "cancelled", !.completed_at = Some(clock)]

\* celery_tasks._sync_job_to_db(job_id, status, **kw): one committed update
\* of the row; a missing row is logged and left alone
_sync_job_to_db(r, status, kw) ==
  IF ~r.exists THEN r
  ELSE [f \in DOMAIN r |->
          IF f = "status" THEN status
          ELSE IF f \in DOMAIN kw THEN kw[f] ELSE r[f]]

\* celery_tasks._update_progress(job_id, progress, phase_label)
_update_progress(r, progress) ==
  IF ~r.exists THEN r ELSE [r EXCEPT !.progress = progress]

\* ------------------------------------------------------------------------
\* initial state: the server is up, no job submitted yet
\* ------------------------------------------------------------------------
NoSpec ==
  [ submitted |-> FALSE, execution_mode |-> "plugin", container_image |-> ImgNone,
    inputs_exist |-> TRUE, command_template |-> FALSE, workflow_steps |-> << >> ]

NoJobs == [ present |-> FALSE, status |-> "pending", container_id |-> None, celery_task_id |-> FALSE ]

\* spec_dict["input_files"]: the staged input files of the submission
input_files == {"T1w.nii.gz"}

\* current_input_files = list(input_files) (run_workflow_job line 782)
IdleEx ==
  [ pc |-> "idle", container |-> 0, current_progress |-> 0, log_buffer |-> {},
    error |-> "", step_idx |-> 0, current_input_files |-> input_files ]

IdleHttp == [ pc |-> "idle" ]

\* what the last call on the SSH manager did
NoLast ==
  [ op |-> "", result |-> "", alive |-> FALSE, configured |-> FALSE,
    reconnected |-> FALSE, ran |-> FALSE ]

\* SSHManager.__init__: not configured, no client, no timer; the idle timeout
\* of 1800 s is scaled to 2 ticks
NoSsh ==
  [ host |-> "", username |-> "", port |-> 22, idle_timeout |-> 2,
    _client |-> None, _sftp |-> FALSE, _connected |-> FALSE, _last_activity |-> 0,
    _idle_timer |-> None, idle_disconnect |-> FALSE, attempts |-> 0, raised |-> FALSE,
    now |-> 0, last |-> NoLast ]

\* a registry loaded from empty directories, nobody reading
NoRegistry ==
  [ plugins |-> << >>, workflows |-> << >>, pc |-> "idle", seen |-> None,
    disk |-> [plugins |-> << >>, workflows |-> << >>],
    old |-> [plugins |-> << >>, workflows |-> << >>] ]

\* no command is being built
NoBuild == [ pc |-> "idle", path |-> "", template |-> << >>, items |-> << >>, command |-> None ]

NoHist ==
  [ redelivered |-> 0, cancel_returns |-> << >>, cancelled_before_pickup |-> FALSE,
    submit_returned |-> FALSE, retries |-> 0 ]

\* no job exists
NoJob ==
  /\ spec_dict = NoSpec
  /\ row = NoRow
  /\ jobs = NoJobs
  /\ task = "none"
  /\ ex = IdleEx
  /\ containers = << >>
  /\ clock = 1
  /\ http = IdleHttp
  /\ hist = NoHist
  /\ conversions = << >>

Init ==
  /\ backend_type \in {"local"}
  /\ NoJob
  /\ build = NoBuild
  /\ registry = NoRegistry
  /\ ssh = NoSsh
  /\ call = None

\* time passes while the job exists
Tick ==
  /\ spec_dict.submitted
  /\ clock < MaxClock
  /\ clock' = clock + 1
  /\ UNCHANGED << conversions, service_vars, backend_type, spec_dict, row, jobs, task, ex, containers, http, hist >>

\* ------------------------------------------------------------------------
\* local_backend.py: LocalDockerBackend.submit_job
\* ------------------------------------------------------------------------
\* the submissions tried: each image with staged inputs and a command
\* template, and an allowed image with each of the two other defects
Submission(image, inputs_exist, template) ==
  [ submitted |-> TRUE, execution_mode |-> "plugin", container_image |-> image,
    inputs_exist |-> inputs_exist, command_template |-> template, workflow_steps |-> << >> ]

\* main.submit_workflow_job: the step ids go into parameters._workflow_steps,
\* the image is the first step's plugin image
WorkflowSubmission(steps, inputs_exist) ==
  [ submitted |-> TRUE, execution_mode |-> "workflow",
    container_image |-> IF steps = << >> \/ get_plugin(steps[1]) = None THEN ImgNone
                        ELSE get_plugin(steps[1])[1].container_image,
    inputs_exist |-> inputs_exist, command_template |-> FALSE, workflow_steps |-> steps ]

WorkflowSteps == UNION {[1..n -> PluginIds] : n \in 0..MaxSteps}

Submissions ==
  {Submission(i, TRUE, TRUE) : i \in Images}
    \cup {Submission(ImgFreesurfer, FALSE, TRUE), Submission(ImgFreesurfer, TRUE, FALSE)}
    \cup {WorkflowSubmission(w, TRUE) : w \in WorkflowSteps}
    \cup {WorkflowSubmission(<<"fs">>, FALSE)}

\* track the job, insert the pending row, dispatch to the queue; when the
\* dispatch raises, hand the job to the in-thread fallback instead
LocalSubmit ==
  /\ backend_type = "local"
  /\ ~spec_dict.submitted
  /\ \E s \in Submissions, dispatched \in BOOLEAN :
       /\ spec_dict' = s
       /\ row' = from_spec
       /\ jobs' = [NoJobs EXCEPT !.present = TRUE, !.celery_task_id = dispatched]
       /\ task' = IF dispatched THEN "queued" ELSE "none"
       /\ ex' = IF dispatched THEN ex ELSE [IdleEx EXCEPT !.pc = "th_start"]
  /\ hist' = [hist EXCEPT !.submit_returned = TRUE]
  /\ UNCHANGED << conversions, service_vars, backend_type, containers, clock, http >>

\* ------------------------------------------------------------------------
\* the durable queue (celery_app.py, task options of run_docker_job)
\* ------------------------------------------------------------------------
\* a worker receives the queued task message and starts running the task
Pickup ==
  /\ task = "queued"
  /\ task' = "active"
  /\ ex' = [IdleEx EXCEPT !.pc = IF spec_dict.execution_mode = "workflow"
                                   THEN "wf_start" ELSE "rd_start"]
  /\ UNCHANGED << conversions, service_vars, backend_type, spec_dict, row, jobs, containers, clock, http, hist >>

\* acks_late=True, reject_on_worker_lost=True: the worker process dies while
\* the task runs, the unacknowledged message goes back to the queue; a
\* detached container the task had started is not touched
WorkerLost ==
  /\ task = "active"
  /\ hist.redelivered < MaxRedeliver
  /\ task' = "queued"
  /\ ex' = [IdleEx EXCEPT !.pc = "lost"]
  /\ hist' = [hist EXCEPT !.redelivered = @ + 1]
  /\ UNCHANGED << conversions, service_vars, backend_type, spec_dict, row, jobs, containers, clock, http >>

\* the task function returned or raised Reject(requeue=False): the message
\* is settled and the executor is gone
TaskEnds(e) == [IdleEx EXCEPT !.pc = "done", !.error = e.error]

\* raise Reject(msg, requeue=False) outside a try block ends the task
Rejected == [IdleEx EXCEPT !.pc = "done", !.error = "reject"]

\* ------------------------------------------------------------------------
\* the container runtime
\* ------------------------------------------------------------------------
\* created: the directories under native/ that the container made
NewContainer(image, hardened) ==
  [ state |-> "running", exit_code |-> 0, image |-> image, hardened |-> hardened,
    created |-> {} ]

\* the directories a step container can write under output_dir/native
NativeDirs == {"fastsurfer"}

\* native_dir.iterdir() filtered by is_dir(): the output tree is per job, so
\* it holds what every container of the job has made so far
Native(cs) == UNION {cs[k].created : k \in 1..Len(cs)}

\* container.remove(force=True) in a finally block
RemoveContainer(cs, c) ==
  IF c = 0 THEN cs ELSE [cs EXCEPT ![c].state = "removed", ![c].exit_code = 0]

\* celery_tasks._extract_bundle: when the native output holds .mgz files not
\* converted yet, each is converted by a blocking containers.run(image,
\* "mri_convert ...", remove=True), called without security options
_extract_bundle(convs, image, mgz_files) ==
  IF mgz_files /\ convs = << >>
    THEN Append(convs, [ image |-> image, hardened |-> FALSE ])
    ELSE convs

\* the process of the container the executor follows exits on its own: the
\* log stream ends and container.wait() will give the exit code
ContainerExit ==
  /\ ex.container # 0
  /\ \E code \in ExitCodes :
       /\ containers[ex.container].state = "running"
       /\ containers' = [containers EXCEPT ![ex.container].state = "exited",
                                           ![ex.container].exit_code = code]
  /\ UNCHANGED << conversions, service_vars, backend_type, spec_dict, row, jobs, task, ex, clock, http, hist >>

\* ------------------------------------------------------------------------
\* celery_tasks.py: run_docker_job
\* ------------------------------------------------------------------------
\* RunDockerStart without the started_at stamp
RunDockerStartNoStamp ==
  /\ task = "active" /\ ex.pc = "rd_start"
  /\ row' = _sync_job_to_db(row, "running", [progress |-> 1])
  /\ ex' = [ex EXCEPT !.pc = "rd_validate"]
  /\ UNCHANGED << conversions, service_vars, backend_type, spec_dict, jobs, task, containers, clock, http, hist >>

\* lines 297-334: output tree, job_spec.json, mark the job running
RunDockerStart ==
  /\ task = "active" /\ ex.pc = "rd_start"
  /\ row' = _sync_job_to_db(row, "running", [started_at |-> Some(clock), progress |-> 1])
  /\ ex' = [ex EXCEPT !.pc = "rd_validate"]
  /\ UNCHANGED << conversions, service_vars, backend_type, spec_dict, jobs, task, containers, clock, http, hist >>

\* lines 336-354: non-retryable validation, each failure raises Reject
\* outside the try block
RunDockerValidate ==
  /\ task = "active" /\ ex.pc = "rd_validate"
  /\ IF spec_dict.container_image = ImgNone
       THEN /\ row' = _sync_job_to_db(row, "failed", << >>)
            /\ ex' = Rejected /\ task' = "done"
     ELSE IF ~_validate_image(spec_dict.container_image)
       THEN /\ row' = _sync_job_to_db(row, "failed", << >>)
            /\ ex' = Rejected /\ task' = "done"
     ELSE IF ~spec_dict.inputs_exist
       THEN /\ row' = _sync_job_to_db(row, "failed", << >>)
            /\ ex' = Rejected /\ task' = "done"
     ELSE /\ ex' = [ex EXCEPT !.pc = "rd_pull"]
          /\ UNCHANGED << row, task >>
  /\ UNCHANGED << conversions, service_vars, backend_type, spec_dict, jobs, containers, clock, http, hist >>

\* lines 362-371: docker.from_env() and images.get(); the daemon may be
\* unavailable, the image may be absent
RunDockerImageGet ==
  /\ task = "active" /\ ex.pc = "rd_pull"
  /\ \E outcome \in {"daemon_unavailable", "present", "absent"} :
       CASE outcome = "daemon_unavailable" ->
              /\ ex' = [ex EXCEPT !.pc = "rd_except", !.error = "transient"]
              /\ row' = row
         [] outcome = "present" ->
              /\ ex' = [ex EXCEPT !.pc = "rd_build"]
              /\ row' = row
         [] outcome = "absent" ->
              /\ row' = _sync_job_to_db(row, "running", [progress |-> 2])
              /\ ex' = [ex EXCEPT !.pc = "rd_pulling"]
  /\ UNCHANGED << conversions, service_vars, backend_type, spec_dict, jobs, task, containers, clock, http, hist >>

\* line 371: client.images.pull(image) succeeds or raises
RunDockerImagePull ==
  /\ task = "active" /\ ex.pc = "rd_pulling"
  /\ \E pulled \in BOOLEAN :
       ex' = IF pulled THEN [ex EXCEPT !.pc = "rd_build"]
             ELSE [ex EXCEPT !.pc = "rd_except", !.error = "transient"]
  /\ UNCHANGED << conversions, service_vars, backend_type, spec_dict, row, jobs, task, containers, clock, http, hist >>

\* lines 373-406: resolve parameters, stage inputs, build the command; a
\* plugin job without a command template is marked failed and raises Reject
\* inside the try block
RunDockerBuildCommand ==
  /\ task = "active" /\ ex.pc = "rd_build"
  /\ IF spec_dict.command_template
       THEN /\ ex' = [ex EXCEPT !.pc = "rd_launch"]
            /\ row' = row
     ELSE IF spec_dict.execution_mode = "plugin"
       THEN /\ row' = _sync_job_to_db(row, "failed", << >>)
            /\ ex' = [ex EXCEPT !.pc = "rd_except", !.error = "reject"]
     ELSE /\ ex' = [ex EXCEPT !.pc = "rd_launch"]
          /\ row' = row
  /\ UNCHANGED << conversions, service_vars, backend_type, spec_dict, jobs, task, containers, clock, http, hist >>

\* line 427: progress 3, "Starting container"
RunDockerAnnounce ==
  /\ task = "active" /\ ex.pc = "rd_launch"
  /\ row' = _sync_job_to_db(row, "running", [progress |-> 3])
  /\ ex' = [ex EXCEPT !.pc = "rd_run"]
  /\ UNCHANGED << conversions, service_vars, backend_type, spec_dict, jobs, task, containers, clock, http, hist >>

\* lines 429-445: client.containers.run(..., detach=True) starts the
\* container or raises
RunDockerContainersRun ==
  /\ task = "active" /\ ex.pc = "rd_run"
  /\ \E started \in BOOLEAN :
       IF started
         THEN /\ containers' = Append(containers, NewContainer(spec_dict.container_image, TRUE))
              /\ ex' = [ex EXCEPT !.pc = "rd_record", !.container = Len(containers) + 1]
         ELSE /\ ex' = [ex EXCEPT !.pc = "rd_except", !.error = "transient"]
              /\ containers' = containers
  /\ UNCHANGED << conversions, service_vars, backend_type, spec_dict, row, jobs, task, clock, http, hist >>

\* lines 446-451: record the container id, reset the progress locals
RunDockerRecord ==
  /\ task = "active" /\ ex.pc = "rd_record"
  /\ row' = _sync_job_to_db(row, "running", [backend_job_id |-> Some(ex.container)])
  /\ ex' = [ex EXCEPT !.pc = "rd_stream", !.current_progress = 3, !.log_buffer = {}]
  /\ UNCHANGED << conversions, service_vars, backend_type, spec_dict, jobs, task, containers, clock, http, hist >>

\* lines 466-486 without the break: the last milestone in list order that
\* exceeds current_progress and matches
FirstMilestoneNoBreak(milestones, buffer, current) ==
  LET hits == {i \in 1..Len(milestones) :
                 milestones[i][2] > current /\ milestones[i][1] \in buffer}
  IN  IF hits = {} THEN 0 ELSE CHOOSE i \in hits : \A j \in hits : i >= j

\* lines 466-486: the first milestone in list order whose percentage exceeds
\* current_progress and whose marker occurs in the buffer; 0 when none
FirstMilestone(milestones, buffer, current) ==
  LET hits == {i \in 1..Len(milestones) :
                 milestones[i][2] > current /\ milestones[i][1] \in buffer}
  IN  IF hits = {} THEN 0 ELSE CHOOSE i \in hits : \A j \in hits : i <= j

\* lines 453-486: one log chunk of the running container; text is the set of
\* markers the chunk brings (a chunk that brings none changes nothing)
RunDockerLogChunk ==
  /\ task = "active" /\ ex.pc = "rd_stream"
  /\ containers[ex.container].state = "running"
  /\ \E text \in (SUBSET Markers) \ (SUBSET ex.log_buffer) :
       LET buffer == ex.log_buffer \cup text
           m == FirstMilestone(get_milestones, buffer, ex.current_progress)
       IN  /\ Cardinality(text) <= 2
           /\ Cardinality(buffer) <= MaxLog
           /\ IF m = 0
                THEN /\ ex' = [ex EXCEPT !.log_buffer = buffer]
                     /\ row' = row
                ELSE /\ ex' = [ex EXCEPT !.log_buffer = buffer,
                                         !.current_progress = get_milestones[m][2]]
                     /\ row' = _update_progress(row, get_milestones[m][2])
  /\ UNCHANGED << conversions, service_vars, backend_type, spec_dict, jobs, task, containers, clock, http, hist >>

\* lines 488-539 and the finally block 566-572: the log stream ended,
\* container.wait() gives the exit code, the final status is written
RunDockerFinish ==
  /\ task = "active" /\ ex.pc = "rd_stream"
  /\ containers[ex.container].state = "exited"
  /\ IF containers[ex.container].exit_code = 0
       THEN /\ row' = _sync_job_to_db(row, "completed",
                        [completed_at |-> Some(clock), exit_code |-> Some(0), progress |-> 100])
            /\ ex' = [ex EXCEPT !.pc = "rd_post"]
            /\ UNCHANGED << task, containers >>
       ELSE /\ row' = _sync_job_to_db(row, "failed",
                        [completed_at |-> Some(clock),
                         exit_code |-> Some(containers[ex.container].exit_code)])
            /\ ex' = TaskEnds(ex) /\ task' = "done"
            /\ containers' = RemoveContainer(containers, ex.container)
  /\ UNCHANGED << conversions, service_vars, backend_type, spec_dict, jobs, clock, http, hist >>

\* lines 517-529 and the finally block: object-store upload and bundle
\* extraction after the row is completed, then the task returns
RunDockerPostProcess ==
  /\ task = "active" /\ ex.pc = "rd_post"
  /\ ex' = TaskEnds(ex) /\ task' = "done"
  /\ containers' = RemoveContainer(containers, ex.container)
  /\ \E mgz_files \in BOOLEAN :
       conversions' = _extract_bundle(conversions, spec_dict.container_image, mgz_files)
  /\ UNCHANGED << service_vars, backend_type, spec_dict, row, jobs, clock, http, hist >>

\* self.request.retries: the task is never re-raised into the retry
\* machinery (line 564 returns), so every attempt runs with retries = 0
request_retries == 0

\* lines 541-564 and the finally block: the except handler writes failed on
\* the last attempt, else "running / Retrying", and returns a result
RunDockerExcept ==
  /\ task = "active" /\ ex.pc = "rd_except"
  /\ IF request_retries >= max_retries
       THEN row' = _sync_job_to_db(row, "failed",
                     [completed_at |-> Some(clock), exit_code |-> Some(-1)])
       ELSE row' = _sync_job_to_db(row, "running", << >>)
  /\ ex' = TaskEnds(ex) /\ task' = "done"
  /\ containers' = RemoveContainer(containers, ex.container)
  /\ UNCHANGED << conversions, service_vars, backend_type, spec_dict, jobs, clock, http, hist >>

\* ------------------------------------------------------------------------
\* celery_tasks.py: run_workflow_job and _run_single_container
\* ------------------------------------------------------------------------
total_steps == Len(spec_dict.workflow_steps)

\* int((step_idx / total_steps) * 90) and int(90 / total_steps)
progress_base == (ex.step_idx * 90) \div total_steps
progress_range == 90 \div total_steps

\* pct = progress_base + int(pct_raw * progress_range / 100)
StepPct(pct_raw) == progress_base + (pct_raw * progress_range) \div 100

\* the step's plugin image
StepImage == get_plugin(spec_dict.workflow_steps[ex.step_idx + 1])[1].container_image

\* lines 716-738: output tree, job_spec.json, mark the job running
WorkflowStart ==
  /\ task = "active" /\ ex.pc = "wf_start"
  /\ row' = _sync_job_to_db(row, "running", [started_at |-> Some(clock), progress |-> 1])
  /\ ex' = [ex EXCEPT !.pc = "wf_validate"]
  /\ UNCHANGED << conversions, service_vars, backend_type, spec_dict, jobs, task, containers, clock, http, hist >>

\* lines 740-772: no steps, an unknown plugin, a step image outside the
\* allow-list or a missing input file mark the job failed and raise Reject
WorkflowValidate ==
  /\ task = "active" /\ ex.pc = "wf_validate"
  /\ LET steps == spec_dict.workflow_steps
         bad == \/ steps = << >>
                \/ \E k \in 1..Len(steps) :
                      \/ get_plugin(steps[k]) = None
                      \/ ~_validate_image(get_plugin(steps[k])[1].container_image)
                \/ ~spec_dict.inputs_exist
     IN  IF bad
           THEN /\ row' = _sync_job_to_db(row, "failed", << >>)
                /\ ex' = Rejected /\ task' = "done"
           ELSE /\ ex' = [ex EXCEPT !.pc = "wf_step", !.step_idx = 0]
                /\ UNCHANGED << row, task >>
  /\ UNCHANGED << conversions, service_vars, backend_type, spec_dict, jobs, containers, clock, http, hist >>

\* WorkflowStepFinish that goes on with the next step after a non-zero exit
WorkflowStepFinishNoReturn ==
  /\ task = "active" /\ ex.pc = "wf_stream"
  /\ containers[ex.container].state = "exited"
  /\ containers' = RemoveContainer(containers, ex.container)
  /\ LET exit_code == containers[ex.container].exit_code
     IN  IF ex.step_idx + 1 = total_steps
           THEN IF exit_code # 0
                  THEN /\ row' = _sync_job_to_db(row, "failed",
                                   [completed_at |-> Some(clock), exit_code |-> Some(exit_code)])
                       /\ ex' = TaskEnds(ex) /\ task' = "done"
                  ELSE /\ row' = _sync_job_to_db(row, "completed",
                                   [completed_at |-> Some(clock), exit_code |-> Some(0),
                                    progress |-> 100])
                       /\ ex' = [IdleEx EXCEPT !.pc = "wf_post"]
                       /\ task' = task
           ELSE /\ row' = IF exit_code # 0
                            THEN _sync_job_to_db(row, "failed",
                                   [completed_at |-> Some(clock), exit_code |-> Some(exit_code)])
                            ELSE row
                /\ ex' = [IdleEx EXCEPT !.pc = "wf_step", !.step_idx = ex.step_idx + 1]
                /\ task' = task
  /\ UNCHANGED << conversions, service_vars, backend_type, spec_dict, jobs, clock, http, hist >>

\* lines 787-812: a step starts: update_fn(progress_base + 1), the step
\* spec, then _prepare_volumes stages current_input_files with shutil.copy2,
\* which raises for a directory; the exception is not caught, the task is
\* retried (autoretry_for=(Exception,), max_retries=2) and then given up
WorkflowStepBegin ==
  /\ task = "active" /\ ex.pc = "wf_step"
  /\ row' = _update_progress(row, progress_base + 1)
  /\ IF ex.current_input_files \cap NativeDirs = {}
       THEN /\ ex' = [ex EXCEPT !.pc = "wf_pull"]
            /\ UNCHANGED << task, hist >>
     ELSE IF hist.retries < max_retries
       THEN /\ ex' = [IdleEx EXCEPT !.pc = "retry"]
            /\ task' = "queued"
            /\ hist' = [hist EXCEPT !.retries = @ + 1]
     ELSE /\ ex' = [IdleEx EXCEPT !.pc = "done", !.error = "staging"]
          /\ task' = "done"
          /\ hist' = hist
  /\ UNCHANGED << conversions, service_vars, backend_type, spec_dict, jobs, containers, clock, http >>

\* lines 845-849: an exception out of _run_single_container marks the job
\* failed with exit code -1 and the task returns
WorkflowStepRaised ==
  /\ row' = _sync_job_to_db(row, "failed", [completed_at |-> Some(clock), exit_code |-> Some(-1)])
  /\ ex' = TaskEnds([ex EXCEPT !.error = "transient"]) /\ task' = "done"

\* _run_single_container lines 595-605: docker.from_env(), images.get();
\* an absent image is pulled after update_fn(progress_base + 1)
WorkflowImageGet ==
  /\ task = "active" /\ ex.pc = "wf_pull"
  /\ \E outcome \in {"daemon_unavailable", "present", "absent"} :
       CASE outcome = "daemon_unavailable" -> WorkflowStepRaised
         [] outcome = "present" ->
              /\ ex' = [ex EXCEPT !.pc = "wf_launch"]
              /\ UNCHANGED << row, task >>
         [] outcome = "absent" ->
              /\ row' = _update_progress(row, progress_base + 1)
              /\ ex' = [ex EXCEPT !.pc = "wf_pulling"]
              /\ task' = task
  /\ UNCHANGED << conversions, service_vars, backend_type, spec_dict, jobs, containers, clock, http, hist >>

\* _run_single_container line 605: client.images.pull(image)
WorkflowImagePull ==
  /\ task = "active" /\ ex.pc = "wf_pulling"
  /\ \E pulled \in BOOLEAN :
       IF pulled
         THEN /\ ex' = [ex EXCEPT !.pc = "wf_launch"]
              /\ UNCHANGED << row, task >>
         ELSE WorkflowStepRaised
  /\ UNCHANGED << conversions, service_vars, backend_type, spec_dict, jobs, containers, clock, http, hist >>

\* _run_single_container lines 620-623: update_fn(progress_base + 2)
WorkflowAnnounce ==
  /\ task = "active" /\ ex.pc = "wf_launch"
  /\ row' = _update_progress(row, progress_base + 2)
  /\ ex' = [ex EXCEPT !.pc = "wf_run"]
  /\ UNCHANGED << conversions, service_vars, backend_type, spec_dict, jobs, task, containers, clock, http, hist >>

\* _run_single_container lines 625-642: containers.run(detach=True) with the
\* security options, then the progress locals
WorkflowContainersRun ==
  /\ task = "active" /\ ex.pc = "wf_run"
  /\ \E started \in BOOLEAN :
       IF started
         THEN /\ containers' = Append(containers, NewContainer(StepImage, TRUE))
              /\ ex' = [ex EXCEPT !.pc = "wf_stream", !.container = Len(containers) + 1,
                                   !.current_progress = progress_base + 2, !.log_buffer = {}]
              /\ UNCHANGED << row, task >>
         ELSE /\ WorkflowStepRaised
              /\ containers' = containers
  /\ UNCHANGED << conversions, service_vars, backend_type, spec_dict, jobs, clock, http, hist >>

\* _run_single_container lines 655-673: the first milestone whose scaled
\* percentage exceeds current_progress and whose marker is in the buffer
FirstStepMilestone(milestones, buffer, current) ==
  LET hits == {i \in 1..Len(milestones) :
                 StepPct(milestones[i][2]) > current /\ milestones[i][1] \in buffer}
  IN  IF hits = {} THEN 0 ELSE CHOOSE i \in hits : \A j \in hits : i <= j

\* _run_single_container lines 647-673: one log chunk of the step container
WorkflowLogChunk ==
  /\ task = "active" /\ ex.pc = "wf_stream"
  /\ containers[ex.container].state = "running"
  /\ \E text \in (SUBSET Markers) \ (SUBSET ex.log_buffer) :
       LET buffer == ex.log_buffer \cup text
           m == FirstStepMilestone(get_milestones, buffer, ex.current_progress)
       IN  /\ Cardinality(text) <= 2
           /\ Cardinality(buffer) <= MaxLog
           /\ IF m = 0
                THEN /\ ex' = [ex EXCEPT !.log_buffer = buffer]
                     /\ row' = row
                ELSE /\ ex' = [ex EXCEPT !.log_buffer = buffer,
                                         !.current_progress = StepPct(get_milestones[m][2])]
                     /\ row' = _update_progress(row, StepPct(get_milestones[m][2]))
  /\ UNCHANGED << conversions, service_vars, backend_type, spec_dict, jobs, task, containers, clock, http, hist >>

\* _run_single_container lines 675-688 and run_workflow_job lines 851-881:
\* wait() gives the exit code, the container is removed; a non-zero code
\* fails the job, the last step's success completes it, else the next step,
\* whose inputs are the directories under native/ when there are any
WorkflowStepFinish ==
  /\ task = "active" /\ ex.pc = "wf_stream"
  /\ containers[ex.container].state = "exited"
  /\ LET exit_code == containers[ex.container].exit_code
         removed == RemoveContainer(containers, ex.container)
     IN  IF exit_code # 0
           THEN /\ row' = _sync_job_to_db(row, "failed",
                            [completed_at |-> Some(clock), exit_code |-> Some(exit_code)])
                /\ ex' = TaskEnds(ex) /\ task' = "done"
                /\ containers' = removed
         ELSE IF ex.step_idx + 1 = total_steps
           THEN /\ row' = _sync_job_to_db(row, "completed",
                            [completed_at |-> Some(clock), exit_code |-> Some(0), progress |-> 100])
                /\ ex' = [IdleEx EXCEPT !.pc = "wf_post"]
                /\ task' = task
                /\ containers' = removed
         ELSE /\ \E written \in SUBSET NativeDirs :
                   LET step_output_dirs == Native(containers) \cup written
                   IN  /\ containers' = [removed EXCEPT ![ex.container].created =
                                                           written \ Native(containers)]
                       /\ ex' = [IdleEx EXCEPT
                                   !.pc = "wf_step", !.step_idx = ex.step_idx + 1,
                                   !.current_input_files =
                                      IF step_output_dirs # {} THEN step_output_dirs
                                      ELSE ex.current_input_files]
              /\ UNCHANGED << row, task >>
  /\ UNCHANGED << conversions, service_vars, backend_type, spec_dict, jobs, clock, http, hist >>

\* lines 883-898: object-store upload and bundle extraction, then return
WorkflowPostProcess ==
  /\ task = "active" /\ ex.pc = "wf_post"
  /\ ex' = TaskEnds(ex) /\ task' = "done"
  /\ \E mgz_files \in BOOLEAN :
       conversions' = _extract_bundle(conversions,
                         get_plugin(spec_dict.workflow_steps[total_steps])[1].container_image,
                         mgz_files)
  /\ UNCHANGED << service_vars, backend_type, spec_dict, row, jobs, containers, clock, http, hist >>

\* a workflow of n steps of the FreeSurfer plugin, validated and about to
\* begin its first step (run_workflow_job line 784): the steps alone, without
\* cancellation, redelivery or the clock, for a short and a long workflow
WorkflowInitOf(lengths) ==
  /\ backend_type = "local"
  /\ \E n \in lengths :
       spec_dict = WorkflowSubmission([k \in 1..n |-> "fs"], TRUE)
  /\ row = _sync_job_to_db(from_spec, "running", [started_at |-> Some(1), progress |-> 1])
  /\ jobs = [NoJobs EXCEPT !.present = TRUE, !.celery_task_id = TRUE]
  /\ task = "active"
  /\ ex = [IdleEx EXCEPT !.pc = "wf_step"]
  /\ containers = << >>
  /\ clock = 1
  /\ http = IdleHttp
  /\ hist = [NoHist EXCEPT !.submit_returned = TRUE]
  /\ conversions = << >>
  /\ build = NoBuild
  /\ registry = NoRegistry
  /\ ssh = NoSsh
  /\ call = None

\* local_backend.py LocalDockerBackend.get_job_info lines 361-416: the row
\* when there is one, else the tracking entry, else JobNotFoundError (None)
get_job_info(r, j) ==
  IF r.exists THEN Some([status |-> r.status, progress |-> r.progress])
  ELSE IF j.present THEN Some([status |-> j.status, progress |-> 0])
  ELSE None

\* main.py get_job lines 736-742: GET /api/jobs/{id} loads the row in the
\* request's session; only a pending or running job is refreshed
HttpGetJobBegin ==
  /\ http.pc = "idle"
  /\ row.exists /\ ~row.deleted
  /\ row.status \in {"pending", "running"}
  /\ http' = [pc |-> "get_info", job_progress |-> row.progress, info_progress |-> 0]
  /\ UNCHANGED << conversions, service_vars, backend_type, spec_dict, row, jobs, task, ex, containers, clock, hist >>

\* main.py get_job lines 743-746: info = backend.get_job_info(job_id), read
\* in a session of its own
HttpGetJobInfo ==
  /\ http.pc = "get_info"
  /\ http' = [http EXCEPT !.pc = "get_commit",
                          !.info_progress = get_job_info(row, jobs)[1].progress]
  /\ UNCHANGED << conversions, service_vars, backend_type, spec_dict, row, jobs, task, ex, containers, clock, hist >>

\* main.py get_job lines 747-751: job.progress = info.progress when it is
\* larger than the loaded one, then db.commit() writes the changed column
HttpGetJobCommit ==
  /\ http.pc = "get_commit"
  /\ row' = IF http.info_progress > http.job_progress
              THEN [row EXCEPT !.progress = http.info_progress]
              ELSE row
  /\ http' = IdleHttp
  /\ UNCHANGED << conversions, service_vars, backend_type, spec_dict, jobs, task, ex, containers, clock, hist >>

WorkflowInit == WorkflowInitOf((1..MaxSteps) \cup {LongWorkflow})

\* routes/results.py list_job_files lines 85-110: 404 when the job's output
\* directory does not exist, else every file below it; the job row is not read
list_job_files(output_dir_exists) == IF output_dir_exists THEN "200" ELSE "404"

\* GET /api/results/{job_id}/files while the job is in whatever state it is
\* in; the output tree is made when the task starts (run_workflow_job line
\* 719), so it exists once the row has left pending
ListJobFiles ==
  /\ call' = Some([op |-> "list_job_files", id |-> "job",
                   result |-> list_job_files(row.exists /\ row.status # "pending"),
                   status |-> row.status])
  /\ UNCHANGED << job_vars, build, registry, ssh >>

WorkflowNext ==
  \/ WorkflowStepBegin
  \/ WorkflowImageGet
  \/ WorkflowImagePull
  \/ WorkflowAnnounce
  \/ WorkflowContainersRun
  \/ WorkflowLogChunk
  \/ ContainerExit
  \/ WorkflowStepFinish

SpecWorkflow == WorkflowInit /\ [][WorkflowNext]_vars

\* a short workflow run to its end while the read-side HTTP handlers are
\* called at any moment
ReadsInit == WorkflowInitOf(1..MaxSteps)

ReadsNext ==
  \/ WorkflowNext
  \/ WorkflowPostProcess
  \/ ListJobFiles
  \/ HttpGetJobBegin
  \/ HttpGetJobInfo
  \/ HttpGetJobCommit

SpecReads == ReadsInit /\ [][ReadsNext]_vars

\* ------------------------------------------------------------------------
\* local_backend.py: LocalDockerBackend._run_in_thread, the in-thread
\* fallback used when the dispatch to the queue raised
\* ------------------------------------------------------------------------
\* self._jobs[job_id][field] = value under the lock
Track(j, field, value) == IF j.present THEN [j EXCEPT ![field] = value] ELSE j

\* lines 203-214: docker.from_env() (may raise), output tree, tracking and
\* row marked running
ThreadStart ==
  /\ ex.pc = "th_start"
  /\ \E daemon_up \in BOOLEAN :
       IF daemon_up
         THEN /\ jobs' = Track(jobs, "status", "running")
              /\ row' = _sync_job_to_db(row, "running", [started_at |-> Some(clock), progress |-> 1])
              /\ ex' = [ex EXCEPT !.pc = "th_pull"]
         ELSE /\ ex' = [ex EXCEPT !.pc = "th_except", !.error = "transient"]
              /\ UNCHANGED << jobs, row >>
  /\ UNCHANGED << conversions, service_vars, backend_type, spec_dict, task, containers, clock, http, hist >>

\* lines 216-222: images.get(image); an absent image is pulled after the
\* progress-2 update; an empty image name raises
ThreadImageGet ==
  /\ ex.pc = "th_pull"
  /\ IF spec_dict.container_image = ImgNone
       THEN /\ ex' = [ex EXCEPT !.pc = "th_except", !.error = "image"]
            /\ row' = row
       ELSE \E present \in BOOLEAN :
              IF present
                THEN /\ ex' = [ex EXCEPT !.pc = "th_run"]
                     /\ row' = row
                ELSE /\ row' = _sync_job_to_db(row, "running", [progress |-> 2])
                     /\ ex' = [ex EXCEPT !.pc = "th_pulling"]
  /\ UNCHANGED << conversions, service_vars, backend_type, spec_dict, jobs, task, containers, clock, http, hist >>

\* line 223: client.images.pull(image) succeeds or raises
ThreadImagePull ==
  /\ ex.pc = "th_pulling"
  /\ \E pulled \in BOOLEAN :
       ex' = IF pulled THEN [ex EXCEPT !.pc = "th_run"]
             ELSE [ex EXCEPT !.pc = "th_except", !.error = "transient"]
  /\ UNCHANGED << conversions, service_vars, backend_type, spec_dict, row, jobs, task, containers, clock, http, hist >>

\* lines 225-256: resolve, stage, build the command (None without a
\* template), containers.run(detach=True) without security options
ThreadContainersRun ==
  /\ ex.pc = "th_run"
  /\ \E started \in BOOLEAN :
       IF started
         THEN /\ containers' = Append(containers, NewContainer(spec_dict.container_image, FALSE))
              /\ ex' = [ex EXCEPT !.pc = "th_record", !.container = Len(containers) + 1]
         ELSE /\ ex' = [ex EXCEPT !.pc = "th_except", !.error = "transient"]
              /\ containers' = containers
  /\ UNCHANGED << conversions, service_vars, backend_type, spec_dict, row, jobs, task, clock, http, hist >>

\* lines 258-261: track the container id and record it on the row
ThreadRecord ==
  /\ ex.pc = "th_record"
  /\ jobs' = Track(jobs, "container_id", Some(ex.container))
  /\ row' = _sync_job_to_db(row, "running", [backend_job_id |-> Some(ex.container)])
  /\ ex' = [ex EXCEPT !.pc = "th_wait"]
  /\ UNCHANGED << conversions, service_vars, backend_type, spec_dict, task, containers, clock, http, hist >>

\* lines 263-312: container.wait() returned; the final status is written to
\* the tracking entry and the row, the container is removed
ThreadFinish ==
  /\ ex.pc = "th_wait"
  /\ containers[ex.container].state = "exited"
  /\ LET exit_code == containers[ex.container].exit_code
     IN  IF exit_code = 0
           THEN /\ jobs' = Track(jobs, "status", "completed")
                /\ row' = _sync_job_to_db(row, "completed",
                            [completed_at |-> Some(clock), exit_code |-> Some(0), progress |-> 100])
                /\ \E mgz_files \in BOOLEAN :
                     conversions' = _extract_bundle(conversions, spec_dict.container_image,
                                                    mgz_files)
           ELSE /\ jobs' = Track(jobs, "status", "failed")
                /\ row' = _sync_job_to_db(row, "failed",
                            [completed_at |-> Some(clock), exit_code |-> Some(exit_code)])
                /\ conversions' = conversions
  /\ ex' = TaskEnds(ex)
  /\ containers' = RemoveContainer(containers, ex.container)
  /\ UNCHANGED << service_vars, backend_type, spec_dict, task, clock, http, hist >>

\* lines 314-329: any exception marks the tracking entry and the row failed
\* with exit code -1; a container already started is not removed
ThreadExcept ==
  /\ ex.pc = "th_except"
  /\ jobs' = Track(jobs, "status", "failed")
  /\ row' = _sync_job_to_db(row, "failed", [completed_at |-> Some(clock), exit_code |-> Some(-1)])
  /\ ex' = TaskEnds(ex)
  /\ UNCHANGED << conversions, service_vars, backend_type, spec_dict, task, containers, clock, http, hist >>

\* ------------------------------------------------------------------------
\* local_backend.py: LocalDockerBackend.cancel_job
\* ------------------------------------------------------------------------
\* container.stop(timeout=10) on the tracked container: a running container
\* exits with code; a container that is gone raises, which is logged
StopContainer(cs, cid, code) ==
  IF cid # None /\ cs[cid[1]].state = "running"
    THEN [cs EXCEPT ![cid[1]].state = "exited", ![cid[1]].exit_code = code]
    ELSE cs

\* celery_app.control.revoke(task_id, terminate=True), when the broadcast is
\* delivered: a queued message is discarded on receipt, a running task's
\* worker process is terminated (its finally block may or may not run)
RevokeTask(t) == IF t \in {"queued", "active"} THEN "revoked" ELSE t

RevokeEx(t, e) == IF t = "active" THEN [IdleEx EXCEPT !.pc = "killed"] ELSE e

\* the state after cancel_job(job_id) and its return value; delivered, code
\* and cleaned are the outcomes the environment decides
local_cancel_job(delivered, code, cleaned) ==
  IF ~jobs.present
    THEN \* lines 423-442: not tracked by this backend instance, use the row
         [ row |-> IF row.exists /\ ~is_terminal(row) THEN mark_cancelled(row) ELSE row,
           jobs |-> jobs, task |-> task, ex |-> ex, containers |-> containers,
           ret |-> IF ~row.exists THEN "JobNotFoundError"
                   ELSE IF is_terminal(row) THEN "False" ELSE "True" ]
    ELSE \* lines 444-480: stop the tracked container, revoke the task,
         \* mark the tracking entry and the row cancelled
         LET revoked == jobs.celery_task_id /\ delivered
             stopped == StopContainer(containers, jobs.container_id, code)
         IN  [ row |-> _sync_job_to_db(row, "cancelled", [completed_at |-> Some(clock)]),
               jobs |-> [jobs EXCEPT !.status = "cancelled"],
               task |-> IF revoked THEN RevokeTask(task) ELSE task,
               ex |-> IF revoked THEN RevokeEx(task, ex) ELSE ex,
               containers |-> IF revoked /\ task = "active" /\ cleaned
                                THEN RemoveContainer(stopped, ex.container)
                                ELSE stopped,
               ret |-> "True" ]

\* the outcomes the environment can decide for one cancel call: whether the
\* revoke reaches a worker, the exit code of a container that is stopped,
\* whether a terminated worker still runs its finally block
Deliveries == IF jobs.present /\ jobs.celery_task_id /\ task \in {"queued", "active"}
              THEN BOOLEAN ELSE {FALSE}

StopCodes == IF jobs.present /\ jobs.container_id # None
                  /\ containers[jobs.container_id[1]].state = "running"
             THEN ExitCodes ELSE {0}

Cleanups == IF jobs.present /\ jobs.celery_task_id /\ task = "active" /\ ex.container # 0
            THEN BOOLEAN ELSE {FALSE}

\* the backend contract's cancel(id) for the configured backend
cancel_job(delivered, code, cleaned) == local_cancel_job(delivered, code, cleaned)

\* history kept for the properties: the return values of cancel(id) in call
\* order, and whether a cancel marked the row while the task was still
\* waiting for its first pickup
NoteCancel(h, r) ==
  [h EXCEPT !.cancel_returns = Append(@, r.ret),
            !.cancelled_before_pickup =
                @ \/ (task = "queued" /\ h.redelivered = 0 /\ r.row.status = "cancelled")]

\* cancel(id) called on the backend
CancelJob ==
  /\ spec_dict.submitted
  /\ Len(hist.cancel_returns) < MaxCancels
  /\ http.pc = "idle"
  /\ \E delivered \in Deliveries, code \in StopCodes, cleaned \in Cleanups :
       LET r == cancel_job(delivered, code, cleaned)
       IN  /\ row' = r.row /\ jobs' = r.jobs /\ task' = r.task
           /\ ex' = r.ex /\ containers' = r.containers
           /\ hist' = NoteCancel(hist, r)
  /\ UNCHANGED << conversions, service_vars, backend_type, spec_dict, clock, http >>

\* ------------------------------------------------------------------------
\* main.py: POST /api/jobs/{job_id}/cancel
\* ------------------------------------------------------------------------
\* lines 762-766: load the row; 404 when missing or deleted, 400 when the
\* loaded row is terminal
HttpCancelCheck(r) ==
  IF ~r.exists \/ r.deleted THEN "idle"       \* 404
  ELSE IF is_terminal(r) THEN "idle"         \* 400
  ELSE "checked"

HttpCancelBegin ==
  /\ spec_dict.submitted
  /\ Len(hist.cancel_returns) < MaxCancels
  /\ http.pc = "idle"
  /\ http' = [pc |-> HttpCancelCheck(row)]
  /\ UNCHANGED << conversions, service_vars, backend_type, spec_dict, row, jobs, task, ex, containers, clock, hist >>

\* lines 768-777: backend.cancel_job (its exceptions are logged), then
\* job.mark_cancelled() on the loaded row and commit
HttpCancelFinish ==
  /\ http.pc = "checked"
  /\ \E delivered \in Deliveries, code \in StopCodes, cleaned \in Cleanups :
       LET r == cancel_job(delivered, code, cleaned)
       IN  /\ row' = mark_cancelled(r.row) /\ jobs' = r.jobs /\ task' = r.task
           /\ ex' = r.ex /\ containers' = r.containers
           /\ hist' = NoteCancel(hist, [r EXCEPT !.row = mark_cancelled(r.row)])
  /\ http' = IdleHttp
  /\ UNCHANGED << conversions, service_vars, backend_type, spec_dict, clock >>

\* ------------------------------------------------------------------------
\* remote_docker_backend.py and slurm_backend.py: submit_job
\* ------------------------------------------------------------------------
\* RemoteDockerBackend.submit_job: the shared SSH session must be connected,
\* the job directory is made, "docker run -d" starts the container on the
\* remote host (a failure raises ExecutionError), the job is tracked, the
\* job_meta.json is written (a failure raises) and the id is returned; no
\* job row is written
RemoteSubmit ==
  /\ backend_type = "remote_docker"
  /\ ~spec_dict.submitted
  /\ \E s \in Submissions,
        outcome \in {"not_connected", "run_failed", "meta_failed", "started"} :
       /\ spec_dict' = s
       /\ IF outcome \in {"meta_failed", "started"}
            THEN /\ containers' = Append(containers, NewContainer(s.container_image, FALSE))
                 /\ jobs' = [NoJobs EXCEPT !.present = TRUE,
                                           !.container_id = Some(Len(containers) + 1)]
            ELSE UNCHANGED << containers, jobs >>
       /\ hist' = [hist EXCEPT !.submit_returned = (outcome = "started")]
  /\ UNCHANGED << conversions, service_vars, backend_type, row, task, ex, clock, http >>

\* SLURMBackend.submit_job: connect, make the job directory, upload the
\* script, sbatch (a failure raises), track the job, insert the pending row
\* with the scheduler's id, return the id
SlurmSubmit ==
  /\ backend_type = "slurm"
  /\ ~spec_dict.submitted
  /\ \E s \in Submissions, outcome \in {"unavailable", "sbatch_failed", "submitted"} :
       /\ spec_dict' = s
       /\ IF outcome = "submitted"
            THEN /\ task' = "slurm_pending"
                 /\ jobs' = [NoJobs EXCEPT !.present = TRUE]
                 /\ row' = [from_spec EXCEPT !.backend_job_id = Some(1)]
            ELSE UNCHANGED << task, jobs, row >>
       /\ hist' = [hist EXCEPT !.submit_returned = (outcome = "submitted")]
  /\ UNCHANGED << conversions, service_vars, backend_type, ex, containers, clock, http >>

\* routes/hpc.py switch_backend: a new backend object of the requested type
\* replaces the singleton; its job tracking starts empty
SwitchBackend ==
  /\ \E b \in {"local", "remote_docker", "slurm"} : backend_type' = b
  /\ jobs' = NoJobs
  /\ call' = None
  /\ UNCHANGED << conversions, build, registry, ssh, spec_dict, row, task, ex,
                  containers, clock, http, hist >>

\* Job.soft_delete
soft_delete(r) == [r EXCEPT !.deleted = TRUE]

\* cleanup_job(job_id) of the configured backend for the submitted job:
\* LocalDockerBackend drops the tracking entry and the output directory and
\* soft-deletes the row; RemoteDockerBackend removes container and directory
\* over SSH and drops the tracking entry; SLURMBackend returns False for a
\* job it does not track, else removes the directory, drops the entry and
\* soft-deletes the row
cleanup_job(connected) ==
  CASE backend_type = "local" ->
         [ row |-> IF row.exists THEN soft_delete(row) ELSE row, jobs |-> NoJobs,
           containers |-> containers, ret |-> "True" ]
    [] backend_type = "remote_docker" ->
         IF ~connected
           THEN [ row |-> row, jobs |-> jobs, containers |-> containers,
                  ret |-> "BackendUnavailableError" ]
           ELSE [ row |-> row, jobs |-> NoJobs,
                  containers |-> [c \in DOMAIN containers |->
                                    [containers[c] EXCEPT !.state = "removed"]],
                  ret |-> "True" ]
    [] backend_type = "slurm" ->
         IF ~jobs.present \/ ~connected
           THEN [ row |-> row, jobs |-> jobs, containers |-> containers, ret |-> "False" ]
           ELSE [ row |-> IF row.exists THEN soft_delete(row) ELSE row, jobs |-> NoJobs,
                  containers |-> containers, ret |-> "True" ]

\* cleanup(id) called on the backend for the submitted job
CleanupJob ==
  /\ spec_dict.submitted
  /\ \E connected \in BOOLEAN :
       LET r == cleanup_job(connected)
       IN  /\ row' = r.row /\ jobs' = r.jobs /\ containers' = r.containers
           /\ call' = Some([op |-> "cleanup_job", id |-> "job", result |-> r.ret])
  /\ UNCHANGED << conversions, build, registry, ssh, backend_type, spec_dict, task, ex,
                  clock, http, hist >>

\* main.py DELETE /api/jobs/{job_id}: 404 without a row, else soft delete
HttpDeleteJob ==
  /\ row' = IF row.exists THEN soft_delete(row) ELSE row
  /\ call' = Some([op |-> "delete_job", id |-> "job",
                   result |-> IF row.exists THEN "200" ELSE "404"])
  /\ UNCHANGED << conversions, build, registry, ssh, backend_type, spec_dict, jobs, task,
                  ex, containers, clock, http, hist >>

\* main.py GET /api/jobs and the backends' list_jobs over the job rows: a
\* deleted row is filtered out
list_jobs(r) == IF r.exists /\ ~r.deleted THEN {"job"} ELSE {}

\* get_job_status(job_id) of the configured backend, for the submitted job
\* and for an id that was never submitted; scheduler is what squeue or sacct
\* say about a known SLURM id
get_job_status(id, connected, scheduler) ==
  CASE backend_type = "local" ->
         IF id = "job" /\ jobs.present THEN jobs.status
         ELSE IF id = "job" /\ row.exists THEN row.status
         ELSE "JobNotFoundError"
    [] backend_type = "remote_docker" ->
         IF ~connected THEN "BackendUnavailableError"
         ELSE IF id = "job" /\ containers # << >> /\ containers[1].state # "removed"
           THEN (IF containers[1].state = "running" THEN "running"
                 ELSE IF containers[1].exit_code = 0 THEN "completed" ELSE "failed")
         ELSE "unknown"
    [] backend_type = "slurm" ->
         IF id = "job" /\ (jobs.present \/ (row.exists /\ row.backend_job_id # None))
           THEN (IF connected /\ scheduler # "" THEN scheduler
                 ELSE IF jobs.present THEN jobs.status ELSE "JobNotFoundError")
           ELSE "JobNotFoundError"

\* status(id) called on the backend
GetJobStatus ==
  /\ \E id \in {"job", "never"}, connected \in BOOLEAN, scheduler \in {"", "pending", "completed"} :
       call' = Some([op |-> "get_job_status", id |-> id,
                     result |-> get_job_status(id, connected, scheduler)])
  /\ call' # call
  /\ UNCHANGED << job_vars, build, registry, ssh >>

\* one submission on each of the three backends
SubmitInit ==
  /\ backend_type \in {"local", "remote_docker", "slurm"}
  /\ NoJob
  /\ build = NoBuild
  /\ registry = NoRegistry
  /\ ssh = NoSsh
  /\ call = None

SubmitNext ==
  \/ LocalSubmit
  \/ RemoteSubmit
  \/ SlurmSubmit
  \/ SwitchBackend
  \/ CleanupJob
  \/ HttpDeleteJob
  \/ GetJobStatus

SpecSubmit == SubmitInit /\ [][SubmitNext]_vars

Next ==
  \/ Tick
  \/ LocalSubmit
  \/ Pickup
  \/ WorkerLost
  \/ ContainerExit
  \/ RunDockerStart
  \/ RunDockerValidate
  \/ RunDockerImageGet
  \/ RunDockerImagePull
  \/ RunDockerBuildCommand
  \/ RunDockerAnnounce
  \/ RunDockerContainersRun
  \/ RunDockerRecord
  \/ RunDockerLogChunk
  \/ RunDockerFinish
  \/ RunDockerPostProcess
  \/ RunDockerExcept
  \/ WorkflowStart
  \/ WorkflowValidate
  \/ WorkflowStepBegin
  \/ WorkflowImageGet
  \/ WorkflowImagePull
  \/ WorkflowAnnounce
  \/ WorkflowContainersRun
  \/ WorkflowLogChunk
  \/ WorkflowStepFinish
  \/ WorkflowPostProcess
  \/ ThreadStart
  \/ ThreadImageGet
  \/ ThreadImagePull
  \/ ThreadContainersRun
  \/ ThreadRecord
  \/ ThreadFinish
  \/ ThreadExcept
  \/ CancelJob
  \/ HttpCancelBegin
  \/ HttpCancelFinish

Spec == Init /\ [][Next]_vars

\* what the workers, the fallback thread and the container runtime do on
\* their own: a worker takes the queued task, the executor goes on with its
\* next statement, the container's process ends
ExecutorStep ==
  \/ Pickup
  \/ ContainerExit
  \/ RunDockerStart \/ RunDockerValidate \/ RunDockerImageGet \/ RunDockerImagePull
  \/ RunDockerBuildCommand \/ RunDockerAnnounce \/ RunDockerContainersRun
  \/ RunDockerRecord \/ RunDockerFinish \/ RunDockerPostProcess \/ RunDockerExcept
  \/ WorkflowStart \/ WorkflowValidate \/ WorkflowStepBegin \/ WorkflowImageGet
  \/ WorkflowImagePull \/ WorkflowAnnounce \/ WorkflowContainersRun
  \/ WorkflowStepFinish \/ WorkflowPostProcess
  \/ ThreadStart \/ ThreadImageGet \/ ThreadImagePull \/ ThreadContainersRun
  \/ ThreadRecord \/ ThreadFinish \/ ThreadExcept

\* workers are scheduled fairly and every container comes to an end
SpecLive == Init /\ [][Next]_vars /\ WF_vars(ExecutorStep)

\* ------------------------------------------------------------------------
\* celery_tasks.py: _sanitize_param
\* ------------------------------------------------------------------------
\* longest parameter value given to the sanitiser
MaxLen == 3

\* the backquote character (a TLA+ string cannot hold it)
Backquote == "backquote"

\* dangerous = set(";|&`$(){}!><\n\r")
dangerous == {";", "|", "&", Backquote, "$", "(", ")", "{", "}", "!", ">", "<", "\n", "\r"}

\* _sanitize_param with a dangerous set that lacks the carriage return
RECURSIVE _sanitize_param_keeps_cr(_)
_sanitize_param_keeps_cr(value) ==
  IF value = << >> THEN << >>
  ELSE (IF Head(value) \in dangerous \ {"\r"} THEN << >> ELSE << Head(value) >>)
         \o _sanitize_param_keeps_cr(Tail(value))

\* "".join(c for c in value if c not in dangerous)
RECURSIVE _sanitize_param(_)
_sanitize_param(value) ==
  IF value = << >> THEN << >>
  ELSE (IF Head(value) \in dangerous THEN << >> ELSE << Head(value) >>)
         \o _sanitize_param(Tail(value))

\* the characters a parameter value is made of: every shell metacharacter
\* and three harmless ones
Chars == dangerous \cup {"a", "/", " "}

Strings(n) == UNION {[1..k -> Chars] : k \in 0..n}

\* a value arrives at the sanitiser
SanitizeInit ==
  /\ backend_type = "local"
  /\ NoJob
  /\ registry = NoRegistry
  /\ ssh = NoSsh
  /\ call = None
  /\ \E value \in Strings(MaxLen) :
       build = [NoBuild EXCEPT !.pc = "value", !.items = << << <<"k">>, value >> >>]

\* safe_value = _sanitize_param(str(value))
SanitizeParam ==
  /\ build.pc = "value"
  /\ build' = [build EXCEPT !.pc = "sanitized",
                             !.command = Some(_sanitize_param(build.items[1][2]))]
  /\ UNCHANGED << job_vars, registry, ssh, call >>

SpecSanitize == SanitizeInit /\ [][SanitizeParam]_vars

\* ------------------------------------------------------------------------
\* the five places that substitute parameter values into a command template
\* ------------------------------------------------------------------------
\* longest parameter value substituted into a template
MaxParamLen == 2

\* str.replace(old, new): every non-overlapping occurrence, left to right
RECURSIVE Replace(_, _, _)
Replace(s, old, new) ==
  IF Len(s) < Len(old) THEN s
  ELSE IF SubSeq(s, 1, Len(old)) = old
    THEN new \o Replace(SubSeq(s, Len(old) + 1, Len(s)), old, new)
  ELSE << Head(s) >> \o Replace(Tail(s), old, new)

\* command.replace(f"{{{key}}}", v) then command.replace(f"${{{key}}}", v)
Substitute(command, key, v) ==
  Replace(Replace(command, <<"{">> \o key \o <<"}">>, v),
          <<"$", "{">> \o key \o <<"}">>, v)

\* for key, value in items: substitute, in the order of the mapping
RECURSIVE SubstituteAll(_, _)
SubstituteAll(command, items) ==
  IF items = << >> THEN command
  ELSE SubstituteAll(Substitute(command, Head(items)[1], Head(items)[2]), Tail(items))

\* the command templates tried: the two placeholder forms, a placeholder of
\* an underscore key, and no template
Templates ==
  { <<"c", " ", "{", "k", "}">>,
    <<"c", " ", "$", "{", "k", "}">>,
    <<"c", " ", "{", "_", "k", "}">>,
    << >> }

\* the parameters tried: one entry, key k or _k
ItemLists ==
  {<< <<key, value>> >> : key \in {<<"k">>, <<"_", "k">>}, value \in Strings(MaxParamLen)}

\* the entries with each value passed through _sanitize_param
Sanitized(items) ==
  [i \in DOMAIN items |-> << items[i][1], _sanitize_param(items[i][2]) >>]

\* slurm_backend lines 731-734: the entries whose key does not start with
\* "_", each value filtered by the inline dangerous_chars set
dangerous_chars == {";", "|", "&", Backquote, "$", "(", ")", "{", "}", "!", ">", "<", "\n", "\r"}

PublicItems(items) == SelectSeq(items, LAMBDA kv : ~StartsWith(kv[1], <<"_">>))

SbatchSafe(items) ==
  [i \in DOMAIN items |->
     << items[i][1], SelectSeq(items[i][2], LAMBDA c : c \notin dangerous_chars) >>]

Built(path, template, items, command) ==
  [ pc |-> "built", path |-> path, template |-> template, items |-> items,
    command |-> command ]

\* celery_tasks.run_docker_job lines 392-406
BuildRunDocker ==
  /\ build.pc = "idle"
  /\ \E template \in Templates, items \in ItemLists :
       build' = Built("run_docker_job", template, items,
                      IF template # << >>
                        THEN Some(SubstituteAll(template, Sanitized(items)))
                        ELSE None)
  /\ UNCHANGED << job_vars, registry, ssh, call >>

\* celery_tasks.run_workflow_job lines 814-821
BuildWorkflowStep ==
  /\ build.pc = "idle"
  /\ \E template \in Templates, items \in ItemLists :
       build' = Built("run_workflow_job", template, items,
                      IF template # << >>
                        THEN Some(SubstituteAll(template, Sanitized(items)))
                        ELSE None)
  /\ UNCHANGED << job_vars, registry, ssh, call >>

\* local_backend._run_in_thread lines 229-236
BuildThread ==
  /\ build.pc = "idle"
  /\ \E template \in Templates, items \in ItemLists :
       build' = Built("_run_in_thread", template, items,
                      IF template # << >>
                        THEN Some(SubstituteAll(template, items))
                        ELSE None)
  /\ UNCHANGED << job_vars, registry, ssh, call >>

\* remote_docker_backend.submit_job lines 180-190: bash -c "<cmd>"
BuildRemoteDocker ==
  /\ build.pc = "idle"
  /\ \E template \in Templates, items \in ItemLists :
       build' = Built("remote_docker", template, items,
                      IF template # << >>
                        THEN Some(<<"b", "a", "s", "h", " ", "-", "c", " ", "\"">>
                                    \o SubstituteAll(template, PublicItems(items))
                                    \o <<"\"">>)
                        ELSE None)
  /\ UNCHANGED << job_vars, registry, ssh, call >>

\* slurm_backend._generate_sbatch_script lines 726-736
BuildSbatch ==
  /\ build.pc = "idle"
  /\ \E template \in Templates, items \in ItemLists :
       build' = Built("slurm", template, items,
                      IF template # << >>
                        THEN Some(SubstituteAll(template, SbatchSafe(PublicItems(items))))
                        ELSE None)
  /\ UNCHANGED << job_vars, registry, ssh, call >>

CommandNext ==
  \/ BuildRunDocker
  \/ BuildWorkflowStep
  \/ BuildThread
  \/ BuildRemoteDocker
  \/ BuildSbatch

SpecCommand == Init /\ [][CommandNext]_vars

\* ------------------------------------------------------------------------
\* plugin_registry.py: PluginWorkflowRegistry, reload() and its readers
\* ------------------------------------------------------------------------
\* the definitions a directory of YAML files may hold: some of the ids, each
\* with a version
YamlFiles(ids) == UNION {[present -> {1, 2}] : present \in SUBSET ids}

\* __init__: both maps loaded from the files
RegistryInit ==
  /\ backend_type = "local"
  /\ NoJob
  /\ build = NoBuild
  /\ ssh = NoSsh
  /\ call = None
  /\ \E plugins \in YamlFiles({"fs", "evil"}), workflows \in YamlFiles({"wf"}) :
       LET maps == [plugins |-> plugins, workflows |-> workflows]
       IN  registry = [ plugins |-> plugins, workflows |-> workflows, pc |-> "idle",
                        seen |-> None, disk |-> maps, old |-> maps ]

\* YAML definitions are added, removed or updated on disk
RegistryEditFiles ==
  /\ registry.pc = "idle"
  /\ \E plugins \in YamlFiles({"fs", "evil"}), workflows \in YamlFiles({"wf"}) :
       /\ [plugins |-> plugins, workflows |-> workflows] # registry.disk
       /\ registry' = [registry EXCEPT !.disk = [plugins |-> plugins, workflows |-> workflows],
                                        !.seen = None]
  /\ UNCHANGED << job_vars, build, ssh, call >>

\* reload line 414: self.plugins.clear()
ReloadClearPlugins ==
  /\ registry.pc = "idle"
  /\ registry' = [registry EXCEPT !.plugins = << >>, !.pc = "clear_workflows", !.seen = None]
  /\ UNCHANGED << job_vars, build, ssh, call >>

\* reload line 415: self.workflows.clear()
ReloadClearWorkflows ==
  /\ registry.pc = "clear_workflows"
  /\ registry' = [registry EXCEPT !.workflows = << >>, !.pc = "load_plugins", !.seen = None]
  /\ UNCHANGED << job_vars, build, ssh, call >>

\* m with the entry id -> v
Put(m, id, v) == [k \in DOMAIN m \cup {id} |-> IF k = id THEN v ELSE m[k]]

\* _load_plugins: one file per step, self.plugins[plugin_id] = plugin
ReloadLoadPlugins ==
  /\ registry.pc = "load_plugins"
  /\ LET left == DOMAIN registry.disk.plugins \ DOMAIN registry.plugins
     IN  IF left = {}
           THEN registry' = [registry EXCEPT !.pc = "load_workflows", !.seen = None]
           ELSE \E id \in left :
                  registry' = [registry EXCEPT
                                 !.plugins = Put(@, id, registry.disk.plugins[id]),
                                 !.seen = None]
  /\ UNCHANGED << job_vars, build, ssh, call >>

\* _load_workflows, one file per step, then _validate_workflows and return
ReloadLoadWorkflows ==
  /\ registry.pc = "load_workflows"
  /\ LET left == DOMAIN registry.disk.workflows \ DOMAIN registry.workflows
     IN  IF left = {}
           THEN registry' = [registry EXCEPT
                               !.pc = "idle", !.seen = None,
                               !.old = [plugins |-> registry.plugins,
                                        workflows |-> registry.workflows]]
           ELSE \E id \in left :
                  registry' = [registry EXCEPT
                                 !.workflows = Put(@, id, registry.disk.workflows[id]),
                                 !.seen = None]
  /\ UNCHANGED << job_vars, build, ssh, call >>

\* dict.get(id): the entry of id, if the map has one
Get(m, id) == [k \in DOMAIN m \cap {id} |-> m[k]]

\* what a reader call returns from the maps it is given
Read(maps, reader) ==
  CASE reader[1] = "get_plugin" -> Get(maps.plugins, reader[2])
    [] reader[1] = "list_plugins" -> maps.plugins
    [] reader[1] = "get_workflow" -> Get(maps.workflows, reader[2])
    [] reader[1] = "list_workflows" -> maps.workflows

\* get_plugin, list_plugins, get_workflow, list_workflows on another thread,
\* no lock taken: the call returns what the maps hold at that moment
RegistryRead ==
  /\ \E reader \in {<<"get_plugin", "fs">>, <<"get_plugin", "evil">>, <<"list_plugins", "">>,
                    <<"get_workflow", "wf">>, <<"list_workflows", "">>} :
       registry' = [registry EXCEPT !.seen = Some([call |-> reader,
                                                    value |-> Read(registry, reader)])]
  /\ registry'.seen # registry.seen
  /\ UNCHANGED << job_vars, build, ssh, call >>

RegistryNext ==
  \/ RegistryEditFiles
  \/ ReloadClearPlugins
  \/ ReloadClearWorkflows
  \/ ReloadLoadPlugins
  \/ ReloadLoadWorkflows
  \/ RegistryRead

SpecRegistry == RegistryInit /\ [][RegistryNext]_vars

\* ------------------------------------------------------------------------
\* ssh_manager.py: SSHManager; every public method runs under self._lock
\* ------------------------------------------------------------------------
MaxNow == 4

\* _close_internal: SFTP channel and client closed and dropped
_close_internal(s) == [s EXCEPT !._sftp = FALSE, !._client = None, !._connected = FALSE]

\* disconnect: the idle timer cancelled and dropped, then _close_internal
disconnect(s) == _close_internal([s EXCEPT !._idle_timer = None])

\* _is_alive: there is a client and its transport is active
_is_alive(s) == s._client # None /\ s._client[1].alive

\* _reset_idle_timer: the outstanding timer cancelled, a new one started when
\* the timeout is enabled and the session is connected
_reset_idle_timer(s) ==
  [s EXCEPT !._idle_timer =
     IF s.idle_timeout > 0 /\ s._connected
       THEN Some([deadline |-> s.now + s.idle_timeout, started |-> FALSE])
       ELSE None]

\* configure: the session to another endpoint is left unchanged
configure_keeps_session(s, host, username, port, idle_timeout) ==
  [s EXCEPT !.host = host, !.username = username, !.port = port,
            !.idle_timeout = idle_timeout]

\* configure: a session to a different host, username or port is disconnected,
\* then the parameters are adopted
configure(s, host, username, port, idle_timeout) ==
  LET d == IF s._connected /\ (s.host # host \/ s.username # username \/ s.port # port)
             THEN disconnect(s) ELSE s
  IN  [d EXCEPT !.host = host, !.username = username, !.port = port,
                !.idle_timeout = idle_timeout]

\* connect: reuse a live session; raise when not configured; else close the
\* stale session and connect to the configured endpoint, which works (ok) or
\* raises SSHConnectionError
connect(s, ok) ==
  IF s._connected /\ _is_alive(s) THEN s
  ELSE IF s.host = "" \/ s.username = "" THEN [s EXCEPT !.raised = TRUE]
  ELSE LET c == [_close_internal(s) EXCEPT !.attempts = @ + 1]
       IN  IF ok
             THEN _reset_idle_timer(
                    [c EXCEPT !._client = Some([hostname |-> s.host, port |-> s.port,
                                                username |-> s.username, alive |-> TRUE]),
                              !._connected = TRUE, !._last_activity = s.now])
             ELSE [c EXCEPT !.raised = TRUE]

\* _ensure_connected: the operation goes on whatever the session's state
_ensure_connected_unchecked(s, ok) == s

\* _ensure_connected: a session that is not connected or not alive is
\* reconnected by one connect(); not configured raises SSHConnectionError
_ensure_connected(s, ok) ==
  IF ~s._connected \/ ~_is_alive(s)
    THEN IF s.host = "" \/ s.username = "" THEN [s EXCEPT !.raised = TRUE]
         ELSE connect(s, ok)
    ELSE s

\* the record of an operation that began in state s
Began(s, op, ok) ==
  [ NoLast EXCEPT !.op = op, !.alive = s._connected /\ _is_alive(s),
                  !.configured = s.host # "" /\ s.username # "", !.reconnected = ok ]

\* routes/hpc.py: configure() with the request's parameters
SshConfigure ==
  /\ \E host \in {"h1", "h2"}, port \in {22, 2222}, idle_timeout \in {0, 2} :
       LET c == configure(ssh, host, "user", port, idle_timeout)
       IN  ssh' = [c EXCEPT !.last = [Began(ssh, "configure", FALSE) EXCEPT
                     !.result = IF ssh._connected /\ ~c._connected
                                  THEN "disconnected" ELSE "kept"]]
  /\ UNCHANGED << job_vars, build, registry, call >>

\* connect() called by a route or a backend
SshConnect ==
  /\ \E ok \in BOOLEAN :
       LET c == connect([ssh EXCEPT !.attempts = 0, !.raised = FALSE], ok)
       IN  ssh' = [c EXCEPT !.last = [Began(ssh, "connect", ok) EXCEPT
                     !.result = IF c.raised THEN "SSHConnectionError" ELSE "ok"]]
  /\ UNCHANGED << job_vars, build, registry, call >>

\* disconnect() called by a route
SshDisconnect ==
  /\ ssh' = [disconnect(ssh) EXCEPT !.last = [Began(ssh, "disconnect", FALSE) EXCEPT
                                                !.result = "ok"]]
  /\ UNCHANGED << job_vars, build, registry, call >>

\* execute: _ensure_connected, last activity, idle timer, then exec_command,
\* which works or fails as SSHConnectionError
SshExecute ==
  /\ \E ok \in BOOLEAN, exec_ok \in BOOLEAN :
       LET e == _ensure_connected([ssh EXCEPT !.attempts = 0, !.raised = FALSE], ok)
           a == _reset_idle_timer([e EXCEPT !._last_activity = e.now])
       IN  ssh' = IF e.raised
                    THEN [e EXCEPT !.last = [Began(ssh, "execute", ok) EXCEPT
                                               !.result = "SSHConnectionError"]]
                    ELSE [a EXCEPT !.last = [Began(ssh, "execute", ok) EXCEPT
                                               !.ran = TRUE,
                                               !.result = IF exec_ok THEN "ok"
                                                          ELSE "SSHConnectionError"]]
  /\ UNCHANGED << job_vars, build, registry, call >>

\* the SFTP calls: _get_sftp (_ensure_connected, open_sftp, idle timer), then
\* put_file, get_file, write_file, read_file and list_dir set the last
\* activity while file_exists and remove_file do not; then the SFTP request
SshSftp ==
  /\ \E op \in {"put_file", "file_exists"}, ok \in BOOLEAN, sftp_ok \in BOOLEAN :
       LET e == _ensure_connected([ssh EXCEPT !.attempts = 0, !.raised = FALSE], ok)
           g == _reset_idle_timer([e EXCEPT !._sftp = TRUE])
           a == IF op = "put_file" THEN [g EXCEPT !._last_activity = g.now] ELSE g
       IN  ssh' = IF e.raised
                    THEN [e EXCEPT !.last = [Began(ssh, op, ok) EXCEPT
                                               !.result = "SSHConnectionError"]]
                    ELSE [a EXCEPT !.last = [Began(ssh, op, ok) EXCEPT
                                               !.ran = TRUE,
                                               !.result = IF sftp_ok THEN "ok"
                                                          ELSE "IOError"]]
  /\ UNCHANGED << job_vars, build, registry, call >>

\* the network: the transport of the session stops being active
SshTransportLost ==
  /\ _is_alive(ssh)
  /\ ssh' = [ssh EXCEPT !._client = Some([ssh._client[1] EXCEPT !.alive = FALSE])]
  /\ UNCHANGED << job_vars, build, registry, call >>

\* threading.Timer: a timer that was started and not cancelled is due
TimerDue(s) ==
  /\ s._idle_timer # None
  /\ ~s._idle_timer[1].started
  /\ s.now >= s._idle_timer[1].deadline

\* time.time() advances; a due timer fires before time moves on
SshTick ==
  /\ ssh.now < MaxNow
  /\ ~TimerDue(ssh)
  /\ ssh' = [ssh EXCEPT !.now = @ + 1]
  /\ UNCHANGED << job_vars, build, registry, call >>

\* the timer thread wakes up and enters _idle_disconnect: idle seconds
\* computed, audit record written, self._lock not yet taken
TimerFires ==
  /\ TimerDue(ssh)
  /\ ~ssh.idle_disconnect
  /\ ssh' = [ssh EXCEPT !._idle_timer = Some([ssh._idle_timer[1] EXCEPT !.started = TRUE]),
                         !.idle_disconnect = TRUE]
  /\ UNCHANGED << job_vars, build, registry, call >>

\* _idle_disconnect reaches disconnect() and gets self._lock
IdleDisconnect ==
  /\ ssh.idle_disconnect
  /\ ssh' = [disconnect(ssh) EXCEPT !.idle_disconnect = FALSE,
                                    !.last = [Began(ssh, "_idle_disconnect", FALSE) EXCEPT
                                                !.result = "disconnected"]]
  /\ UNCHANGED << job_vars, build, registry, call >>

SshInit ==
  /\ backend_type = "local"
  /\ NoJob
  /\ build = NoBuild
  /\ registry = NoRegistry
  /\ ssh = NoSsh
  /\ call = None

SshNext ==
  \/ SshConfigure
  \/ SshConnect
  \/ SshDisconnect
  \/ SshExecute
  \/ SshSftp
  \/ SshTransportLost
  \/ SshTick
  \/ TimerFires
  \/ IdleDisconnect

SpecSsh == SshInit /\ [][SshNext]_vars

\* slurm_backend.py SLURMBackend._ensure_ssh lines 100-107: when the shared
\* session is not connected, configure(host=self.ssh_host,
\* username=self.ssh_user) with every other parameter at its default (port
\* 22, no key path, the default idle timeout), then connect()
_ensure_ssh(s, ssh_host, ssh_user, ok) ==
  IF s._connected /\ _is_alive(s) THEN s
  ELSE connect(configure(s, ssh_host, ssh_user, 22, 2), ok)

\* a remote operation of the SLURM backend made for cluster h1 (submit,
\* status, cancel, ...) begins with _ensure_ssh; a failed connect is raised
\* as BackendUnavailableError
SlurmEnsureSsh ==
  /\ \E ok \in BOOLEAN :
       LET c == _ensure_ssh([ssh EXCEPT !.attempts = 0, !.raised = FALSE], "h1", "user", ok)
       IN  ssh' = [c EXCEPT !.last = [Began(ssh, "_ensure_ssh", ok) EXCEPT
                     !.result = IF c.raised THEN "BackendUnavailableError" ELSE "ok"]]
  /\ UNCHANGED << job_vars, build, registry, call >>

SpecSlurmSsh == SshInit /\ [][SshNext \/ SlurmEnsureSsh]_vars

\* ------------------------------------------------------------------------
\* plugin_registry.py: generate_lockfile and verify_lockfile
\* ------------------------------------------------------------------------
\* every service left as it is
Idle ==
  /\ backend_type = "local"
  /\ NoJob
  /\ build = NoBuild
  /\ registry = NoRegistry
  /\ ssh = NoSsh

\* the definitions loaded from YAML: some of the ids, each with a version and
\* the parsed document
Loaded(ids) ==
  UNION {[present -> [version : {"1.0.0", "1.0.1"}, raw_yaml : {0, 1}]] :
           present \in SUBSET ids}

\* sha256(json.dumps(raw_yaml, sort_keys=True)).hexdigest()[:16]
content_hash(raw_yaml) == IF raw_yaml = 0 THEN "7a3f" ELSE "c41e"

\* generate_lockfile: the lockfile entries carry the parsed document
generate_lockfile_raw(plugins, workflows) ==
  [ plugins |-> [id \in DOMAIN plugins |->
                   [version |-> plugins[id].version,
                    content_hash |-> IF plugins[id].raw_yaml = 0 THEN "0" ELSE "1"]],
    workflows |-> [id \in DOMAIN workflows |->
                     [version |-> workflows[id].version,
                      content_hash |-> content_hash(workflows[id].raw_yaml)]] ]

\* generate_lockfile: version and content hash of every plugin and workflow
generate_lockfile(plugins, workflows) ==
  [ plugins |-> [id \in DOMAIN plugins |->
                   [version |-> plugins[id].version,
                    content_hash |-> content_hash(plugins[id].raw_yaml)]],
    workflows |-> [id \in DOMAIN workflows |->
                     [version |-> workflows[id].version,
                      content_hash |-> content_hash(workflows[id].raw_yaml)]] ]

\* the lockfiles a client may post: entries of any id, with any version and
\* any or no content hash
Lockfiles ==
  LET Entries(ids) ==
        UNION {[present -> [version : {"1.0.0", "1.0.1"},
                            content_hash : {"7a3f", "c41e", ""}]] :
                 present \in SUBSET ids}
  IN  { l \in [plugins : Entries({"fs", "ghost"}), workflows : Entries({"wf"})] :
          "ghost" \in DOMAIN l.plugins =>
            l.plugins["ghost"] = [version |-> "1.0.0", content_hash |-> ""] }

\* verify_lockfile, the loop over the plugin entries left to look at
RECURSIVE VerifyPlugins(_, _, _)
VerifyPlugins(plugins, locked, left) ==
  IF left = {} THEN << >>
  ELSE LET pid == CHOOSE id \in left : TRUE
           lock_info == locked[pid]
           rest == VerifyPlugins(plugins, locked, left \ {pid})
       IN  IF pid \notin DOMAIN plugins
             THEN << [id |-> pid, issue |-> "missing"] >> \o rest
           ELSE IF plugins[pid].version # lock_info.version
             THEN << [id |-> pid, issue |-> "version_changed"] >> \o rest
           ELSE IF content_hash(plugins[pid].raw_yaml) # lock_info.content_hash
             THEN << [id |-> pid, issue |-> "content_changed"] >> \o rest
           ELSE rest

\* verify_lockfile, the loop over the workflow entries: no content hash looked at
RECURSIVE VerifyWorkflows(_, _, _)
VerifyWorkflows(workflows, locked, left) ==
  IF left = {} THEN << >>
  ELSE LET wid == CHOOSE id \in left : TRUE
           rest == VerifyWorkflows(workflows, locked, left \ {wid})
       IN  IF wid \notin DOMAIN workflows
             THEN << [id |-> wid, issue |-> "missing"] >> \o rest
           ELSE IF workflows[wid].version # locked[wid].version
             THEN << [id |-> wid, issue |-> "version_changed"] >> \o rest
           ELSE rest

\* verify_lockfile: the report
verify_lockfile(plugins, workflows, lockfile) ==
  LET p == VerifyPlugins(plugins, lockfile.plugins, DOMAIN lockfile.plugins)
      w == VerifyWorkflows(workflows, lockfile.workflows, DOMAIN lockfile.workflows)
  IN  [ plugins |-> p, workflows |-> w,
        status |-> IF p # << >> \/ w # << >> THEN "mismatch" ELSE "ok" ]

\* a registry that stays as loaded, no lockfile yet
LockfileInit ==
  /\ Idle
  /\ \E plugins \in Loaded({"fs"}), workflows \in Loaded({"wf"}) :
       call = Some([ plugins |-> plugins, workflows |-> workflows,
                     lockfile |-> None, generated |-> FALSE, report |-> None ])

\* GET /api/registry/lockfile
GenerateLockfile ==
  /\ call' = Some([call[1] EXCEPT
                     !.lockfile = Some(generate_lockfile(call[1].plugins, call[1].workflows)),
                     !.generated = TRUE, !.report = None])
  /\ UNCHANGED << job_vars, build, registry, ssh >>

\* the client holds a lockfile of another registry, or an edited one
OtherLockfile ==
  /\ \E lockfile \in Lockfiles :
       /\ lockfile # generate_lockfile(call[1].plugins, call[1].workflows)
       /\ call' = Some([call[1] EXCEPT !.lockfile = Some(lockfile),
                                        !.generated = FALSE, !.report = None])
  /\ UNCHANGED << job_vars, build, registry, ssh >>

\* POST /api/registry/verify
VerifyLockfile ==
  /\ call[1].lockfile # None
  /\ call' = Some([call[1] EXCEPT
                     !.report = Some(verify_lockfile(call[1].plugins, call[1].workflows,
                                                     call[1].lockfile[1]))])
  /\ UNCHANGED << job_vars, build, registry, ssh >>

LockfileNext == GenerateLockfile \/ OtherLockfile \/ VerifyLockfile

SpecLockfile == LockfileInit /\ [][LockfileNext]_vars

\* ------------------------------------------------------------------------
\* routes/results.py: download_file
\* ------------------------------------------------------------------------
MaxSegs == 4

\* _get_output_dir(job_id), as path segments below the filesystem root
output_dir == << "out", "j1" >>

\* the regular files of the host; out/j1/l is a symbolic link to /etc
Files == { << "out", "j1", "f" >>, << "out", "j1", "d", "f" >>, << "etc", "passwd" >> }

\* Path.resolve over the segments still to walk, no normalisation: every
\* segment is appended as it is
RECURSIVE resolve_lexical(_, _)
resolve_lexical(at, segs) ==
  IF segs = << >> THEN at ELSE resolve_lexical(Append(at, Head(segs)), Tail(segs))

\* Path.resolve over the segments still to walk: ".." goes to the parent of
\* the resolved directory, a symbolic link is replaced by its target
RECURSIVE resolve(_, _)
resolve(at, segs) ==
  IF segs = << >> THEN at
  ELSE LET seg == Head(segs)
           to == IF seg = ".." THEN (IF at = << >> THEN at ELSE SubSeq(at, 1, Len(at) - 1))
                 ELSE IF Append(at, seg) = << "out", "j1", "l" >> THEN << "etc" >>
                 ELSE Append(at, seg)
       IN  resolve(to, Tail(segs))

\* the host's own path lookup, as open() does it: the directory or file the
\* segments lead to from the directory at, << "ENOENT" >> when there is none
RECURSIVE namei(_, _)
namei(at, segs) ==
  IF segs = << >> \/ at = << "ENOENT" >> THEN at
  ELSE LET seg == Head(segs)
           Dirs == { << >>, << "out" >>, output_dir, << "out", "j1", "d" >>, << "etc" >> }
           to == IF at \notin Dirs THEN << "ENOENT" >>
                 ELSE IF seg = ".." THEN (IF at = << >> THEN at ELSE SubSeq(at, 1, Len(at) - 1))
                 ELSE IF Append(at, seg) = << "out", "j1", "l" >> THEN << "etc" >>
                 ELSE IF Append(at, seg) \in Dirs \cup Files THEN Append(at, seg)
                 ELSE << "ENOENT" >>
       IN  namei(to, Tail(segs))

\* target.relative_to(root) does not raise ValueError
relative_to(target, root) ==
  Len(target) >= Len(root) /\ SubSeq(target, 1, Len(root)) = root

\* a request with a file_path: absolute or relative, some segments
DownloadInit ==
  /\ Idle
  /\ \E absolute \in BOOLEAN,
        segs \in UNION {[1..n -> {"..", "f", "d", "l", "etc", "passwd"}] : n \in 0..MaxSegs} :
       call = Some([absolute |-> absolute, segs |-> segs, response |-> None])

\* download_file: output_dir / file_path resolved, 400 unless inside the
\* output directory, 404 when missing, 400 for a directory, else the file
\* at that path is sent
DownloadFile ==
  /\ call[1].response = None
  /\ LET target == resolve(IF call[1].absolute THEN << >> ELSE output_dir, call[1].segs)
         status == IF ~relative_to(target, resolve(<< >>, output_dir)) THEN 400
                   ELSE IF target \in { output_dir, << "out", "j1", "d" >> } THEN 400
                   ELSE IF target \notin Files THEN 404
                   ELSE 200
     IN  call' = Some([call[1] EXCEPT !.response = Some([status |-> status, path |-> target])])
  /\ UNCHANGED << job_vars, build, registry, ssh >>

SpecDownload == DownloadInit /\ [][DownloadFile]_vars

\* ------------------------------------------------------------------------
\* the command template of a plugin: plugin_registry._load_plugins, the
\* plugin executor and the workflow executor
\* ------------------------------------------------------------------------
\* the plugin YAML files tried: execution.stages absent, with a first entry
\* that is not a mapping, or with a first entry holding a template; an
\* execution.command_template; a top-level command
PluginYamls ==
  [ stages : {<< >>} \cup {<< [is_dict |-> d, command_template |-> t] >> :
                             d \in BOOLEAN, t \in {"", "recon-all"}},
    command_template : {"", "run_fs", "run_v2"},
    command : {"", "legacy", "run_v2"} ]

\* plugin_registry._load_plugins lines 183-223: command_template is
\* stages[0].command_template, else execution.command_template; command is
\* that, else the top-level command
_load_plugins(data) ==
  LET staged == IF data.stages # << >> /\ data.stages[1].is_dict
                  THEN data.stages[1].command_template ELSE ""
      command_template == IF staged # "" THEN staged ELSE data.command_template
  IN  [ command_template |-> command_template,
        command |-> IF command_template # "" THEN command_template ELSE data.command,
        raw_yaml |-> data ]

\* local_backend.submit_job lines 125-134 and run_docker_job lines 378-388:
\* plugin.command_template or plugin.command
PluginTemplate(plugin) ==
  IF plugin.command_template # "" THEN plugin.command_template ELSE plugin.command

\* run_workflow_job lines 802-806: raw_yaml execution.command_template, else
\* plugin.command_template
WorkflowTemplate(plugin) ==
  IF plugin.raw_yaml.command_template # "" THEN plugin.raw_yaml.command_template
  ELSE plugin.command_template

\* the template resolved for a plugin file by the loader, by the plugin
\* executor and by the workflow executor
ResolveTemplate ==
  /\ \E data \in PluginYamls, by \in {"_load_plugins", "run_docker_job", "run_workflow_job"} :
       call' = Some([op |-> by, data |-> data,
                     result |-> CASE by = "_load_plugins" -> _load_plugins(data).command
                                  [] by = "run_docker_job" -> PluginTemplate(_load_plugins(data))
                                  [] by = "run_workflow_job" ->
                                       WorkflowTemplate(_load_plugins(data))])
  /\ UNCHANGED << job_vars, build, registry, ssh >>

SpecTemplate == Init /\ [][ResolveTemplate]_vars

\* ------------------------------------------------------------------------
\* celery_tasks.py: _prepare_volumes, input staging
\* ------------------------------------------------------------------------
MaxFiles == 2

\* an input file: its name as (stem, suffixes), what it holds, whether the
\* path exists
InputFiles ==
  [ name : {<< "sub-01_T1w", ".nii.gz" >>, << "T1w", ".nii.gz" >>, << "mask", ".nii" >>},
    content : {"scan-a", "scan-b"},
    exists : BOOLEAN ]

\* the names of the files in a staging directory, a set of (name, content)
Names(staged) == {p[1] : p \in staged}

\* _prepare_volumes with the "if not staged_path.exists()" test left out
RECURSIVE _prepare_volumes_overwrite(_, _, _)
_prepare_volumes_overwrite(files, expected_input_names, staged) ==
  IF files = << >> THEN staged
  ELSE LET f == Head(files)
           staged_name == IF expected_input_names # << >>
                            THEN << Head(expected_input_names), f.name[2] >>
                            ELSE f.name
           rest == IF expected_input_names # << >> THEN Tail(expected_input_names)
                   ELSE << >>
       IN  _prepare_volumes_overwrite(Tail(files), rest,
             IF f.exists
               THEN {p \in staged : p[1] # staged_name} \cup {<< staged_name, f.content >>}
               ELSE staged)

\* _prepare_volumes lines 193-207: each input file that exists is copied
\* into _inputs/ under the plugin's expected input name plus the file's
\* suffixes, or under its own name, unless a file of that name is there
RECURSIVE _prepare_volumes(_, _, _)
_prepare_volumes(files, expected_input_names, staged) ==
  IF files = << >> THEN staged
  ELSE LET f == Head(files)
           staged_name == IF expected_input_names # << >>
                            THEN << Head(expected_input_names), f.name[2] >>
                            ELSE f.name
           rest == IF expected_input_names # << >> THEN Tail(expected_input_names)
                   ELSE << >>
       IN  _prepare_volumes(Tail(files), rest,
             IF f.exists /\ staged_name \notin Names(staged)
               THEN staged \cup {<< staged_name, f.content >>}
               ELSE staged)

\* lines 209-212: the staging directory read-only at /data/inputs, the
\* output directory read-write at /data/outputs
Volumes ==
  { << "_inputs", "/data/inputs", "ro" >>, << "output_dir", "/data/outputs", "rw" >> }

\* a job's inputs and its staging directory, empty or holding a file staged
\* earlier
StagingInit ==
  /\ backend_type = "local" /\ NoJob
  /\ build = NoBuild /\ registry = NoRegistry /\ ssh = NoSsh
  /\ \E n \in 0..MaxFiles, expected \in {<< >>, << "T1w" >>},
        staged \in {{}, {<< << "T1w", ".nii.gz" >>, "scan-old" >>}} :
       \E files \in [1..n -> InputFiles] :
         call = Some([op |-> "_prepare_volumes", input_files |-> files,
                      expected_input_names |-> expected, _inputs |-> staged,
                      volumes |-> {}, runs |-> 0])

\* one call of _prepare_volumes for the job (a first attempt, a retry, a
\* further workflow step)
PrepareVolumes ==
  /\ call[1].runs < 2
  /\ call' = Some([call[1] EXCEPT
                     !._inputs = _prepare_volumes(call[1].input_files,
                                                  call[1].expected_input_names, @),
                     !.volumes = Volumes,
                     !.runs = @ + 1])
  /\ UNCHANGED << job_vars, build, registry, ssh >>

SpecStaging == StagingInit /\ [][PrepareVolumes]_vars

\* ------------------------------------------------------------------------
\* slurm_backend.py: SLURMBackend.get_job_info and _parse_progress
\* ------------------------------------------------------------------------
\* _parse_progress lines 866-879, the scan of the milestones from entry i on
RECURSIVE BestProgress(_, _, _)
BestProgress(log_content, i, best_progress) ==
  IF i > Len(get_milestones) THEN best_progress
  ELSE BestProgress(log_content, i + 1,
         IF get_milestones[i][2] > best_progress /\ get_milestones[i][1] \in log_content
           THEN get_milestones[i][2] ELSE best_progress)

\* _parse_progress: 0 when the log file is missing or cannot be read over
\* SSH, else the highest milestone whose marker is in the log
_parse_progress(log_content, readable) ==
  IF ~readable THEN 0 ELSE BestProgress(log_content, 1, 0)

\* get_job_info lines 270-305: the status from sacct, else the tracking
\* entry's; the progress is the tracking entry's (0, set at submit and never
\* updated) unless the status is running, when the log is parsed
slurm_get_job_info(sacct, log_content, readable) ==
  LET status == IF sacct # "" THEN sacct ELSE jobs.status
  IN  [ status |-> status,
        progress |-> IF status = "running" THEN _parse_progress(log_content, readable)
                     ELSE 0 ]

\* the batch job on the cluster: the scheduler starts it, its container
\* writes a log line with a marker, it ends
SlurmJobStep ==
  /\ \E step \in {"start", "log", "completed", "failed"}, marker \in Markers :
       CASE step = "start" ->
              /\ task = "slurm_pending"
              /\ task' = "slurm_running" /\ ex' = ex
         [] step = "log" ->
              /\ task = "slurm_running"
              /\ marker \notin ex.log_buffer
              /\ Cardinality(ex.log_buffer) < MaxLog
              /\ ex' = [ex EXCEPT !.log_buffer = @ \cup {marker}] /\ task' = task
         [] OTHER ->
              /\ task = "slurm_running"
              /\ task' = IF step = "completed" THEN "slurm_completed" ELSE "slurm_failed"
              /\ ex' = ex
  /\ UNCHANGED << conversions, service_vars, backend_type, spec_dict, row, jobs, containers, clock, http, hist >>

\* get_job_info(id) for the submitted job: sacct answers with the scheduler's
\* state or fails, the log file can be read or not
SlurmGetJobInfo ==
  /\ backend_type = "slurm" /\ jobs.present
  /\ \E sacct_ok \in BOOLEAN, readable \in BOOLEAN :
       LET sacct == IF ~sacct_ok THEN ""
                    ELSE CASE task = "slurm_pending" -> "pending"
                           [] task = "slurm_running" -> "running"
                           [] task = "slurm_completed" -> "completed"
                           [] OTHER -> "failed"
           info == slurm_get_job_info(sacct, ex.log_buffer, readable)
       IN  call' = Some([op |-> "get_job_info", status |-> info.status,
                         progress |-> info.progress])
  /\ UNCHANGED << job_vars, build, registry, ssh >>

SlurmInfoInit ==
  /\ backend_type = "slurm"
  /\ NoJob
  /\ build = NoBuild /\ registry = NoRegistry /\ ssh = NoSsh
  /\ call = None

SpecSlurmInfo == SlurmInfoInit /\ [][SlurmSubmit \/ SlurmJobStep \/ SlurmGetJobInfo]_vars

\* ------------------------------------------------------------------------
\* properties
\* ------------------------------------------------------------------------
\* a step in which cancel(id) was called on the backend
CancelCalled == Len(hist'.cancel_returns) = Len(hist.cancel_returns) + 1

RunningContainers == {c \in DOMAIN containers : containers[c].state = "running"}

\* C1: no transition leaves a terminal state: once the row is completed,
\* failed or cancelled, no operation changes its status again
C1_TerminalStatusIsFinal ==
  [][(row.exists /\ is_terminal(row)) => row'.status = row.status]_vars

\* C2: the progress stored in the row never decreases, whatever writes it
C2_ProgressNeverDecreases ==
  [][row'.progress >= row.progress]_vars

\* C3: a completed row has exit_code 0, has started_at set, and its
\* completed_at is not earlier than its started_at
C3_CompletedRowIsConsistent ==
  row.status = "completed" =>
    /\ row.exit_code = Some(0)
    /\ row.started_at # None
    /\ row.completed_at # None
    /\ row.completed_at[1] >= row.started_at[1]

\* C3 witness: a completed row whose completion is later than its start
C3_Witness ==
  /\ row.status = "completed"
  /\ row.started_at # None /\ row.completed_at # None
  /\ row.completed_at[1] > row.started_at[1]

\* C4: once cancel(id) marked the row cancelled while the task still waited
\* for its first pickup, no container is started and the row stays cancelled
C4_CancelBeforePickupStartsNothing ==
  hist.cancelled_before_pickup => (containers = << >> /\ row.status = "cancelled")

\* C5: when cancel(id) returns for a job whose container was running, the row
\* is cancelled with completed_at set and no container of the job still runs
C5_CancelStopsRunningContainer ==
  [][(CancelCalled /\ RunningContainers # {}) =>
       /\ row'.status = "cancelled" /\ row'.completed_at # None
       /\ \A c \in RunningContainers : containers'[c].state # "running"]_vars

\* C6: a second cancel(id) on a row the first call left cancelled changes
\* nothing in the row and returns false
C6_SecondCancelReturnsFalse ==
  [][(CancelCalled /\ hist.cancel_returns # << >> /\ row.status = "cancelled") =>
       /\ row' = row
       /\ hist'.cancel_returns[Len(hist'.cancel_returns)] = "False"]_vars

\* C7: whatever the queue redelivers, at most one container is ever started
\* for a plugin job
C7_AtMostOneContainerPerPluginJob ==
  spec_dict.execution_mode = "plugin" => Len(containers) <= 1

\* C8: when the task of a plugin job is over after a transient error and no
\* cancel was requested, the attempts are used up and the row is failed
C8_TransientErrorEndsFailed ==
  (/\ spec_dict.execution_mode = "plugin"
   /\ task = "done" /\ ex.error = "transient"
   /\ hist.cancel_returns = << >> /\ http.pc = "idle")
    => row.status = "failed"

\* C9: when the task is over after a non-retryable error and no cancel was
\* requested, the row is failed and no container was started
C9_NonRetryableErrorEndsFailed ==
  (/\ task = "done" /\ ex.error = "reject"
   /\ hist.cancel_returns = << >> /\ http.pc = "idle")
    => (row.status = "failed" /\ containers = << >>)

\* C10: no container is ever launched from an image outside the allow-list
C10_NoContainerFromDisallowedImage ==
  \A c \in DOMAIN containers : _validate_image(containers[c].image)

\* the characters of a sequence
Range(s) == {s[i] : i \in DOMAIN s}

\* C11: on every path that builds a command, a dangerous character of the
\* built command comes from the template (or the path's own wrapping), never
\* from a parameter value
C11_NoDangerousCharFromParameter ==
  (build.pc = "built" /\ build.command # None) =>
     (Range(build.command[1]) \cap dangerous) \subseteq Range(build.template)

\* the shell metacharacters the sanitiser is to remove
Metacharacters == {";", "|", "&", Backquote, "$", "(", ")", "{", "}", "!", ">", "<", "\n", "\r"}

C13_EveryContainerHardened ==
  /\ \A c \in DOMAIN containers : containers[c].hardened
  /\ \A c \in DOMAIN conversions : conversions[c].hardened

\* C14: at the step in which submit returns the job id, the job row exists
\* with status pending or running and the work has been enqueued, handed to
\* the fallback worker or started
C14_SubmitReturnsIdOfExistingRow ==
  [][(~hist.submit_returned /\ hist'.submit_returned) =>
       /\ row'.exists
       /\ row'.status \in {"pending", "running"}
       /\ (task' \in {"queued", "slurm_pending"} \/ ex'.pc = "th_start"
              \/ containers' # << >>)]_vars

\* C15: when the workflow executor takes the non-zero exit code of a step's
\* container, the row becomes failed with that exit code and the task ends;
\* once the task has ended no further container is started
C15_FailedStepTerminatesWorkflow ==
  [][/\ (/\ spec_dict.execution_mode = "workflow"
         /\ ex.pc = "wf_stream" /\ ex'.pc \in {"done", "wf_step", "wf_post"}
         /\ containers[ex.container].exit_code # 0)
        => /\ row'.status = "failed"
           /\ row'.exit_code = Some(containers[ex.container].exit_code)
           /\ task' = "done" /\ ex'.pc = "done"
           /\ Len(containers') = Len(containers)
     /\ (spec_dict.execution_mode = "workflow" /\ task = "done")
        => Len(containers') = Len(containers)]_vars

\* C15 witness: a two-step workflow ended failed with exit code 137 after
\* its first step, with one container started
C15_Witness ==
  /\ spec_dict.execution_mode = "workflow" /\ total_steps = 2
  /\ task = "done" /\ ex.pc = "done"
  /\ row.status = "failed" /\ row.exit_code = Some(137)
  /\ Len(containers) = 1

\* C16: when the task of a workflow is over with no cancel requested, no
\* validation or runtime error and no step that exited non-zero, every step
\* was run and the row is completed with progress 100
C16_AllStepsSucceedCompletes ==
  (/\ spec_dict.execution_mode = "workflow"
   /\ task = "done" /\ ex.error \notin {"reject", "transient"}
   /\ hist.cancel_returns = << >> /\ http.pc = "idle"
   /\ row.exit_code \in {None, Some(0)})
    => /\ row.status = "completed" /\ row.progress = 100
       /\ Len(containers) >= total_steps

\* C17: what a reader call returns is what the complete old maps or the
\* complete new maps give, also while reload() runs
C17_ReaderSeesOldOrNewRegistry ==
  registry.seen # None =>
    LET seen == registry.seen[1]
    IN  \/ seen.value = Read(registry.old, seen.call)
        \/ seen.value = Read(registry.disk, seen.call)

\* C18: in every state a live session is a session to the configured host,
\* port and username: configure() with a different endpoint has disconnected
\* the session to the old one
C18_SessionBoundToConfiguredEndpoint ==
  ssh._client # None =>
    /\ ssh._client[1].hostname = ssh.host
    /\ ssh._client[1].port = ssh.port
    /\ ssh._client[1].username = ssh.username

\* configure() with a different endpoint has just disconnected a session
C18_Witness ==
  /\ ssh.last.op = "configure"
  /\ ssh.last.result = "disconnected"
  /\ ssh.last.alive
  /\ ~ssh._connected

\* C19: the idle timer disconnects a connected session only when its last
\* activity is at least idle_timeout old, also when the timer expires while
\* an operation runs
C19_IdleEvictionOnlyAfterTimeout ==
  [][(ssh.idle_disconnect /\ ~ssh'.idle_disconnect /\ ssh._connected)
       => ssh.now - ssh._last_activity >= ssh.idle_timeout]_vars

\* C20: execute and the SFTP calls check liveness first: a live session is
\* used as it is; a session that is not alive is reconnected by exactly one
\* connect when configured; when that connect fails or nothing is configured
\* the call raises SSHConnectionError and the operation does not run
C20_OperationChecksLivenessReconnectsOnce ==
  LET l == ssh.last
  IN  l.op \in {"execute", "put_file", "file_exists"} =>
        /\ l.alive => ssh.attempts = 0 /\ l.ran
        /\ ~l.alive /\ l.configured => ssh.attempts = 1
        /\ ~l.alive /\ l.configured /\ l.reconnected => l.ran
        /\ ~l.alive /\ (~l.configured \/ ~l.reconnected) =>
             l.result = "SSHConnectionError" /\ ~l.ran
        /\ ~l.alive /\ ~l.configured => ssh.attempts = 0

\* an operation found the session dead, and the one reconnect failed
C20_Witness ==
  /\ ssh.last.op \in {"execute", "put_file", "file_exists"}
  /\ ~ssh.last.alive
  /\ ssh.last.configured
  /\ ~ssh.last.reconnected
  /\ ssh.last.result = "SSHConnectionError"

\* C21: verifying the lockfile that generate_lockfile gave for the same
\* registry reports status ok and no plugin or workflow issue
C21_LockfileRoundTrip ==
  (call # None /\ call[1].generated /\ call[1].report # None) =>
    /\ call[1].report[1].status = "ok"
    /\ call[1].report[1].plugins = << >>
    /\ call[1].report[1].workflows = << >>

\* a generated lockfile of a registry holding a plugin and a workflow was verified
C21_Witness ==
  /\ call # None
  /\ call[1].generated
  /\ call[1].report # None
  /\ DOMAIN call[1].plugins # {}
  /\ DOMAIN call[1].workflows # {}

\* the one issue verify_lockfile owes an entry of the lockfile, "" for none
Owed(loaded, locked, id) ==
  IF id \notin DOMAIN loaded THEN "missing"
  ELSE IF loaded[id].version # locked[id].version THEN "version_changed"
  ELSE IF content_hash(loaded[id].raw_yaml) # locked[id].content_hash THEN "content_changed"
  ELSE ""

\* the issues a report list holds for an id
Issues(list, id) == [i \in {j \in DOMAIN list : list[j].id = id} |-> list[i].issue]

\* C22: for every plugin and every workflow of the lockfile the report holds
\* exactly the one issue owed (missing, version_changed, content_changed) or
\* none, and status is mismatch exactly when there is an issue
C22_VerifyReportsEveryMismatch ==
  (call # None /\ call[1].report # None) =>
    LET c == call[1]
        r == c.report[1]
        Right(loaded, locked, list) ==
          \A id \in DOMAIN locked :
            LET owed == Owed(loaded, locked, id)
                got == Issues(list, id)
            IN  IF owed = "" THEN DOMAIN got = {}
                ELSE Cardinality(DOMAIN got) = 1 /\ \A i \in DOMAIN got : got[i] = owed
    IN  /\ Right(c.plugins, c.lockfile[1].plugins, r.plugins)
        /\ Right(c.workflows, c.lockfile[1].workflows, r.workflows)
        /\ r.status = "mismatch" <=> (r.plugins # << >> \/ r.workflows # << >>)

\* C23: a download answers 400 whenever the file or directory the path
\* leads to on the host is not below the job's output directory, and the file
\* it serves is a file below it
C23_DownloadStaysInsideOutputDir ==
  (call # None /\ call[1].response # None) =>
    LET c == call[1]
        r == c.response[1]
        asked == namei(IF c.absolute THEN << >> ELSE output_dir, c.segs)
        served == namei(<< >>, r.path)
        Below(path) == Len(path) > 2 /\ path[1] = "out" /\ path[2] = "j1"
    IN  /\ (asked # << "ENOENT" >> /\ ~Below(asked) /\ asked # output_dir) => r.status = 400
        /\ r.status = 200 => Below(served) /\ served \in Files

\* a relative path with ".." segments that leads to /etc/passwd was refused
C23_Witness ==
  /\ call # None
  /\ call[1].response # None
  /\ ~call[1].absolute
  /\ call[1].segs = << "..", "..", "etc", "passwd" >>
  /\ call[1].response[1].status = 400

\* C24: the HTTP cancel handler never changes a row that is completed,
\* failed or cancelled, also when the row became terminal after the handler
\* loaded it
C24_HttpCancelLeavesTerminalRow ==
  [][(http.pc = "checked" /\ http'.pc = "idle" /\ is_terminal(row)) => row' = row]_vars

\* C25: a job row stays stored; after cleanup(id) returned on any backend,
\* and after the HTTP delete, the row of the job carries the deleted flag;
\* a row carrying the flag is not listed
C25_CleanupSoftDeletesRow ==
  /\ (call # None /\ row.exists /\ call[1].op = "cleanup_job" /\ call[1].result = "True")
       => row.deleted
  /\ (call # None /\ call[1].op = "delete_job" /\ call[1].result = "200") => row.deleted
  /\ row.deleted => row.exists /\ list_jobs(row) = {}

\* C26: status(id) for an id that was never submitted fails with
\* JobNotFoundError on every backend and returns no status value
C26_StatusOfUnknownIdIsNotFound ==
  (call # None /\ call[1].op = "get_job_status" /\ call[1].id = "never")
    => call[1].result = "JobNotFoundError"

C28_Progress100OnlyAfterExitZero ==
  (row.exists /\ row.progress = 100) => row.exit_code = Some(0)

\* C29: while step i of a workflow of N steps runs, the stored progress lies
\* in the step's band [i*90/N, (i+1)*90/N] (compared after multiplying by N)
C29_StepProgressWithinBand ==
  (task = "active" /\ row.status = "running"
     /\ ex.pc \in {"wf_pull", "wf_pulling", "wf_launch", "wf_run", "wf_stream"}) =>
    /\ ex.step_idx * 90 <= row.progress * total_steps
    /\ row.progress * total_steps <= (ex.step_idx + 1) * 90

\* C30: the step after step i receives exactly the directories under native/
\* that step i created (in the listing after it, not in the listing before
\* it), and the submission's input files when it created none
C30_NextStepReceivesCreatedDirs ==
  [][(ex.pc = "wf_stream" /\ ex'.pc = "wf_step" /\ ex'.step_idx = ex.step_idx + 1) =>
       LET made == Native(containers') \ Native(containers)
       IN  ex'.current_input_files = IF made # {} THEN made ELSE input_files]_vars

\* C31: the executor writes nothing into the output tree (bundle extraction
\* included) once the row is terminal, and the file listing of a job is
\* served only when its row is terminal
C31_OutputWritesAndReadsNeverOverlap ==
  [][/\ (conversions' # conversions) => ~is_terminal(row)
     /\ (call' # call /\ call'[1].op = "list_job_files" /\ call'[1].result = "200") =>
          is_terminal(row)]_vars

\* C32: a read-side operation leaves every field of the job row unchanged:
\* the step that ends GET /api/jobs/{id} does not change the row
C32_ReadOperationsLeaveRowUnchanged ==
  [][(http.pc = "get_commit" /\ http'.pc = "idle") => row' = row]_vars

\* run_docker_job lines 336-354 and 400-406: the plugin submissions that the
\* queued executor rejects (no image, image outside the allow-list, missing
\* input file, empty command template)
QueuedRejects(s) ==
  /\ s.execution_mode = "plugin"
  /\ \/ s.container_image = ImgNone
     \/ ~_validate_image(s.container_image)
     \/ ~s.inputs_exist
     \/ ~s.command_template

\* C33: the in-thread fallback ends a job as the queued executor does: a
\* submission that the queued executor rejects is never completed by the
\* fallback and gets no container
C33_FallbackRejectsWhatQueuedExecutorRejects ==
  (jobs.present /\ ~jobs.celery_task_id /\ QueuedRejects(spec_dict)) =>
    (row.status # "completed" /\ containers = << >>)

\* C34: the command template resolved for a plugin, by the loader and by
\* both executors, is the first non-empty one of
\* execution.stages[0].command_template, execution.command_template and the
\* top-level command
C34_TemplateLookupOrder ==
  call # None =>
    LET data == call[1].data
        first == IF data.stages # << >> /\ data.stages[1].is_dict
                   THEN data.stages[1].command_template ELSE ""
    IN  call[1].result = IF first # "" THEN first
                         ELSE IF data.command_template # "" THEN data.command_template
                         ELSE data.command

\* every input file that exists has a file of its staged name in _inputs/
AllStaged(c) ==
  \A i \in 1..Len(c.input_files) :
    c.input_files[i].exists =>
      (IF i <= Len(c.expected_input_names)
         THEN << c.expected_input_names[i], c.input_files[i].name[2] >>
         ELSE c.input_files[i].name) \in Names(c._inputs)

\* C35: staging run when the staged files already exist adds, renames and
\* overwrites nothing in _inputs/, and run again yields the same volume mapping
C35_StagingIsIdempotent ==
  [][(call'[1].runs = call[1].runs + 1 /\ AllStaged(call[1])) =>
       /\ call'[1]._inputs = call[1]._inputs
       /\ call[1].runs > 0 => call'[1].volumes = call[1].volumes]_vars

C35_Witness ==
  /\ call[1].runs = 2
  /\ Len(call[1].input_files) = 2
  /\ \A i \in 1..2 : call[1].input_files[i].exists
  /\ call[1].input_files[1].content # call[1].input_files[2].content
  /\ << << "T1w", ".nii.gz" >>, "scan-old" >> \in call[1]._inputs
  /\ Cardinality(call[1]._inputs) = 2

\* C36: an idle timer is armed only while the session is connected and
\* idle_timeout > 0
C36_TimerArmedOnlyWhileConnected ==
  (ssh._idle_timer # None /\ ~ssh._idle_timer[1].started) =>
    (ssh._connected /\ ssh.idle_timeout > 0)

\* C37: a job whose task a worker has picked up eventually has a terminal
\* status, when workers are scheduled fairly and containers come to an end
C37_PickedUpJobReachesTerminal ==
  (task = "active") ~> (row.exists /\ is_terminal(row))

\* C38: on the local backend get_job_status(id) and get_job_info(id).status
\* agree for the submitted job in every state
C38_StatusAndInfoAgree ==
  (backend_type = "local" /\ spec_dict.submitted /\ get_job_info(row, jobs) # None) =>
    get_job_status("job", TRUE, "") = get_job_info(row, jobs)[1].status

\* C39: the progress that successive get_job_info(id) calls of the SLURM
\* backend report for the job never decreases
C39_SlurmProgressNeverDecreases ==
  [][(call # None /\ call' # None) => call'[1].progress >= call[1].progress]_vars

\* the session was up and is gone: its transport died, or the idle timer
\* has just disconnected it
Dropped(s) ==
  \/ s._connected /\ ~_is_alive(s)
  \/ s.last.op = "_idle_disconnect"

\* C40: the operation that follows a dropped session leaves the configured
\* endpoint as it was: host, username and port change by configure()
\* requests only; this holds also for an operation of the SLURM backend on a
\* session that was configured for the backend's own cluster (h1, user)
C40_ReconnectKeepsConfiguredEndpoint ==
  [][(/\ Dropped(ssh)
      /\ ssh'.last.op # "configure"
      /\ ssh'.last.op = "_ensure_ssh" => (ssh.host = "h1" /\ ssh.username = "user")) =>
       /\ ssh'.host = ssh.host
       /\ ssh'.username = ssh.username
       /\ ssh'.port = ssh.port]_vars

====
